---- MODULE Spec2Model ----
(***************************************************************************)
(* Vote ledger of the forum API: voteOnPost (src/src/models/post.model.ts) *)
(* and voteOnComment (comment model), statement by statement, each call in *)
(* its own database transaction on its own pooled connection.              *)
(*                                                                         *)
(* The committed database is voteRows / upvotes / downvotes /              *)
(* notifications.  A transaction's writes are kept in its request record   *)
(* and reach the committed database at COMMIT; ROLLBACK drops them.  The   *)
(* code sets no isolation level, so statements run at the database's       *)
(* default (read committed): a SELECT sees committed rows, an UPDATE or    *)
(* DELETE waits for the row lock of an open transaction and then works on  *)
(* the newest committed row.                                               *)
(***************************************************************************)
EXTENDS Integers, Sequences, FiniteSets, TLC

\* Number of vote requests in one behaviour.
MaxOps == 3
\* Number of vote requests in one behaviour whose requests overlap.
MaxOverlap == 2
\* Number of calls in flight at one time in which the storage has rejected a statement.
MaxFailing == 1
\* Number of vote requests in one behaviour that reach the model functions directly.
MaxDirect == 2
\* Number of post / comment operations in one behaviour that change a table.
MaxContentOps == 2
\* Longest flat comment list given to processCommentThreads.
MaxFlat == 3
\* Number of times processCommentThreads runs on one list.
MaxRuns == 2
\* Largest page number and largest limit a feed request names.
MaxPage == 3
MaxLimit == 2
\* Number of calls that take a client from the pool, one after the other.
MaxCalls == 2

Posts == {"p1"}
Comments == {"c1"}
Subjects == Posts \cup Comments
Users == {"u1", "u2", "u3"}
VoteTypes == {"up", "down"}
\* Strings that reach voteOnPost / voteOnComment as voteType when the caller is not the
\* controller: the parameter's type "up" | "down" is erased at run time.
VoteTypeValues == VoteTypes \cup {"sideways"}
\* Pooled connections, one per request in flight.
Reqs == {1, 2}

\* posts.author_id / comments.author_id: set at creation, never updated.
AuthorOf(s) == IF s \in Posts THEN "u1" ELSE "u2"

\* Ids the storage gives to new posts and to new comments, in this order.
PostIdSeq == <<"p1", "p2">>
CommentIdSeq == <<"c1", "c2", "c3">>
PostIds == {PostIdSeq[i] : i \in DOMAIN PostIdSeq}
CommentIds == {CommentIdSeq[i] : i \in DOMAIN CommentIdSeq}
\* status of a post / comment row; "none": the row does not exist.
Statuses == {"active", "moderated", "deleted"}
\* Content of a post or comment: one text the moderation patterns let pass and one
\* they match (/\b(hate|racist|sexist)\b/i).
Contents == {"hello", "hate"}
UrgencyLevels == {"low", "critical"}

VARIABLES
    voteRows,       \* post_votes / comment_votes: [subject, user, type] -> number of rows
    upvotes,        \* posts.upvotes / comments.upvotes
    downvotes,      \* posts.downvotes / comments.downvotes
    notifications,  \* notifications table: row -> number of rows
    req,            \* per connection: the call in flight, its locals, its open transaction
    hist,           \* the calls that committed, in the order they settled
    postRows,       \* posts table: post_id -> row
    commentRows,    \* comments table: comment_id -> row
    commentNotes,   \* notifications table, rows of type 'comment' / 'expertResponse'
    contentOps,     \* number of post / comment operations that changed a table
    given,          \* the flat comment list as the caller of processCommentThreads built it
    flat,           \* the same list object as it is now
    threads,        \* the values processCommentThreads has returned for it
    feedPosts,      \* posts table with each post's tag names, as the feed reads it
    feedQuery,      \* <<req.query and caller>> of the last GET /feed, <<>> before it
    feedSql,        \* <<text and parameters of the page query>> of that request
    feedResponse,   \* <<the response>> of that request
    answer,         \* <<the response>> to the one post / comment request, <<>> before it
    clients,        \* the pool's clients: the calls that took one, and the call in flight
    tagRows,        \* tags table: the names that have a row
    strayVotes,     \* post_votes / comment_votes rows whose subject has no row
    mode            \* how calls arrive: "serial" (one at a time, through the
                    \* controller), "distinct" (overlapping calls of different users
                    \* on one subject), "concurrent" (any overlapping calls on one
                    \* subject), "direct" (one at a time, the model functions called
                    \* without the controller), "content" (post and comment
                    \* operations one at a time, no vote requests), "threads"
                    \* (processCommentThreads on one list), "feed" (GET /feed on one
                    \* posts table), "requests" (one post / comment request through
                    \* its controller), "clients" (calls of the functions that take a
                    \* client from the pool, one at a time)

contentVars == <<postRows, commentRows, commentNotes, contentOps>>

threadVars == <<given, flat, threads>>

feedVars == <<feedPosts, feedQuery, feedSql, feedResponse>>

storeVars == <<clients, tagRows, strayVotes>>

vars == <<voteRows, upvotes, downvotes, notifications, req, hist, contentVars, threadVars,
          feedVars, answer, storeVars, mode>>

VoteKeys == Subjects \X Users \X VoteTypeValues

\* An upvote notification row as voteOnPost / voteOnComment insert it.
UpvoteNotification(recipient, s) ==
    [recipient_id |-> recipient,
     notification_type |-> "upvote",
     related_post_id |-> IF s \in Posts THEN s ELSE "null",
     related_comment_id |-> IF s \in Comments THEN s ELSE "null"]

NotificationRows == {UpvoteNotification(u, s) : u \in Users, s \in Subjects}

Committed ==
    [voteRows |-> voteRows, upvotes |-> upvotes, downvotes |-> downvotes,
     notifications |-> notifications]

IdleReq ==
    [pc |-> "idle", s |-> "p1", u |-> "u1", t |-> "up",
     existingVote |-> "none", authorId |-> "none",
     wVote |-> "none", lockSubj |-> FALSE, dUp |-> 0, dDown |-> 0, wNotif |-> <<>>,
     failedAt |-> "none", err |-> "none", released |-> 0, committed |-> FALSE,
     begunAt |-> 0, seq |-> 0, commitNo |-> 0, pre |-> <<>>, post |-> <<>>,
     returned |-> <<>>, user_vote |-> "none"]

Active(r) == req[r].pc \notin {"idle"}
InTxn(r) == req[r].pc \in {"SELECT_VOTE", "DELETE_VOTE", "UPDATE_VOTE", "INSERT_VOTE",
                            "UPDATE_COUNTS", "SELECT_AUTHOR", "INSERT_NOTIFICATION",
                            "COMMIT", "ROLLBACK"}
Started == Len(hist) + Cardinality({r \in Reqs : Active(r)})
\* Number of calls that have committed.
Commits == Len(hist) + Cardinality({r \in Reqs : req[r].committed})

\* Whether the storage may reject the next statement of a call.
MayFail ==
    IF Cardinality({q \in Reqs : req[q].err = "storage"}) < MaxFailing
    THEN BOOLEAN ELSE {FALSE}

\* Number of vote rows of (s, u), of either type.
RowsOf(rows, s, u) == rows[<<s, u, "up">>] + rows[<<s, u, "down">>] + rows[<<s, u, "sideways">>]

\* SELECT vote_type ... WHERE subject = s AND user_id = u; rows[0]?.vote_type
SelectVoteType(s, u) ==
    IF RowsOf(voteRows, s, u) = 0 THEN {"none"}
    ELSE {t \in VoteTypeValues : voteRows[<<s, u, t>>] > 0}

\* Whether the storage takes t as a vote_type.  The column's definition is not part of
\* the sources: it may take any string or reject the ones that are not 'up' / 'down'.
VoteTypeStored(t) == IF t \in VoteTypes THEN {TRUE} ELSE BOOLEAN

\* Variant: the tables have no unique key on (subject, user).
PrimaryKeyViolationNoKey(rows, s, u) == FALSE

\* The unique key (subject, user) of post_votes / comment_votes rejects a second row.
PrimaryKeyViolation(rows, s, u) == RowsOf(rows, s, u) > 0

\* Variant: the toggle-off of a down vote decrements upvotes (the up branch pasted twice).
CounterDeltaTogglePaste(existingVote, voteType) ==
    IF existingVote = "none"
    THEN IF voteType = "up" THEN [up |-> 1, down |-> 0] ELSE [up |-> 0, down |-> 1]
    ELSE IF existingVote = voteType
    THEN [up |-> -1, down |-> 0]
    ELSE IF voteType = "up" THEN [up |-> 1, down |-> -1] ELSE [up |-> -1, down |-> 1]

\* Variant: the toggle-off deletes the vote row and leaves the counters alone.
CounterDeltaNoDecrement(existingVote, voteType) ==
    IF existingVote = "none"
    THEN IF voteType = "up" THEN [up |-> 1, down |-> 0] ELSE [up |-> 0, down |-> 1]
    ELSE IF existingVote = voteType
    THEN [up |-> 0, down |-> 0]
    ELSE IF voteType = "up" THEN [up |-> 1, down |-> -1] ELSE [up |-> -1, down |-> 1]

\* Variant: a switch increments the new counter and forgets to decrement the old one.
CounterDeltaSwitchKeepsOld(existingVote, voteType) ==
    IF existingVote = "none"
    THEN IF voteType = "up" THEN [up |-> 1, down |-> 0] ELSE [up |-> 0, down |-> 1]
    ELSE IF existingVote = voteType
    THEN IF voteType = "up" THEN [up |-> -1, down |-> 0] ELSE [up |-> 0, down |-> -1]
    ELSE IF voteType = "up" THEN [up |-> 1, down |-> 0] ELSE [up |-> 0, down |-> 1]

\* Variant: a switch decrements the counter of the new type and increments the old one.
CounterDeltaSwitchSwapped(existingVote, voteType) ==
    IF existingVote = "none"
    THEN IF voteType = "up" THEN [up |-> 1, down |-> 0] ELSE [up |-> 0, down |-> 1]
    ELSE IF existingVote = voteType
    THEN IF voteType = "up" THEN [up |-> -1, down |-> 0] ELSE [up |-> 0, down |-> -1]
    ELSE IF voteType = "up" THEN [up |-> -1, down |-> 1] ELSE [up |-> 1, down |-> -1]

\* The UPDATE of the counters that follows the vote-row statement, per branch.
CounterDelta(existingVote, voteType) ==
    IF existingVote = "none"
    THEN IF voteType = "up" THEN [up |-> 1, down |-> 0] ELSE [up |-> 0, down |-> 1]
    ELSE IF existingVote = voteType
    THEN IF voteType = "up" THEN [up |-> -1, down |-> 0] ELSE [up |-> 0, down |-> -1]
    ELSE IF voteType = "up" THEN [up |-> 1, down |-> -1] ELSE [up |-> -1, down |-> 1]

\* if (existingVote) { if (existingVote === voteType) {toggle off} else {switch} } else {new}
VoteBranch(existingVote, voteType) ==
    IF existingVote = "none" THEN "INSERT_VOTE"
    ELSE IF existingVote = voteType THEN "DELETE_VOTE"
    ELSE "UPDATE_VOTE"

\* Variant: the test for the notification without !existingVote.
ShouldNotifyAnyUpvote(authorId, userId, existingVote, voteType) ==
    /\ authorId # "none"
    /\ authorId # userId
    /\ voteType = "up"

\* Variant: every vote of a non-author notifies (no test of existingVote or voteType).
ShouldNotifyEveryVote(authorId, userId, existingVote, voteType) ==
    /\ authorId # "none"
    /\ authorId # userId

\* if (authorId && authorId !== userId && !existingVote && voteType === "up")
ShouldNotify(authorId, userId, existingVote, voteType) ==
    /\ authorId # "none"
    /\ authorId # userId
    /\ existingVote = "none"
    /\ voteType = "up"

\* The vote rows once a transaction's vote-row statement is committed.
ApplyVoteWrite(rows, w, s, u, t) ==
    CASE w = "insert" -> [rows EXCEPT ![<<s, u, t>>] = @ + 1]
      [] w = "delete" -> [k \in VoteKeys |->
                            IF k[1] = s /\ k[2] = u THEN 0 ELSE rows[k]]
      [] w = "update" -> [k \in VoteKeys |->
                            IF k[1] = s /\ k[2] = u
                            THEN IF k[3] = t THEN RowsOf(rows, s, u) ELSE 0
                            ELSE rows[k]]
      [] OTHER -> rows

\* Variant: the counters are written as the values read when the call began plus the
\* change (read-modify-write in application memory) instead of upvotes = upvotes + 1.
AfterCommitStaleCounters(db, q) ==
    [voteRows |-> ApplyVoteWrite(db.voteRows, q.wVote, q.s, q.u, q.t),
     upvotes |-> [db.upvotes EXCEPT ![q.s] = q.pre.upvotes[q.s] + q.dUp],
     downvotes |-> [db.downvotes EXCEPT ![q.s] = q.pre.downvotes[q.s] + q.dDown],
     notifications |-> [n \in NotificationRows |->
                          db.notifications[n]
                          + Cardinality({i \in DOMAIN q.wNotif : q.wNotif[i] = n})]]

\* COMMIT: the writes of transaction q reach the committed database db.
AfterCommit(db, q) ==
    [voteRows |-> ApplyVoteWrite(db.voteRows, q.wVote, q.s, q.u, q.t),
     upvotes |-> [db.upvotes EXCEPT ![q.s] = @ + q.dUp],
     downvotes |-> [db.downvotes EXCEPT ![q.s] = @ + q.dDown],
     notifications |-> [n \in NotificationRows |->
                          db.notifications[n]
                          + Cardinality({i \in DOMAIN q.wNotif : q.wNotif[i] = n})]]

\* Variant: the catch block ends the transaction with COMMIT.
AfterRollbackCommits(db, q) ==
    [voteRows |-> ApplyVoteWrite(db.voteRows, q.wVote, q.s, q.u, q.t),
     upvotes |-> [db.upvotes EXCEPT ![q.s] = @ + q.dUp],
     downvotes |-> [db.downvotes EXCEPT ![q.s] = @ + q.dDown],
     notifications |-> [n \in NotificationRows |->
                          db.notifications[n]
                          + Cardinality({i \in DOMAIN q.wNotif : q.wNotif[i] = n})]]

\* ROLLBACK: the writes of transaction q are dropped.
AfterRollback(db, q) == db

\* The database before any vote.
EmptyDb ==
    [voteRows |-> [k \in VoteKeys |-> 0],
     upvotes |-> [s \in Subjects |-> 0],
     downvotes |-> [s \in Subjects |-> 0],
     notifications |-> [n \in NotificationRows |-> 0]]

\* One whole call voteOnPost / voteOnComment(s, u, t) that runs alone and commits.
SerialVote(db, s, u, t) ==
    LET ev == IF db.voteRows[<<s, u, "up">>] > 0 THEN "up"
              ELSE IF db.voteRows[<<s, u, "down">>] > 0 THEN "down" ELSE "none"
        d == CounterDelta(ev, t)
        a == AuthorOf(s)
    IN AfterCommit(db,
                   [s |-> s, u |-> u, t |-> t, pre |-> db,
                    wVote |-> CASE VoteBranch(ev, t) = "INSERT_VOTE" -> "insert"
                                [] VoteBranch(ev, t) = "DELETE_VOTE" -> "delete"
                                [] OTHER -> "update",
                    dUp |-> d.up, dDown |-> d.down,
                    wNotif |-> IF ShouldNotify(a, u, ev, t)
                               THEN <<UpvoteNotification(a, s)>> ELSE <<>>])

\* A row that does not exist.  sentiment_score is <<>> for NULL and <<x>> for the number x.
NoPost ==
    [status |-> "none", author_id |-> "none", content |-> "none", comment_count |-> 0,
     expert_responded |-> FALSE, urgency_level |-> "none", sentiment_score |-> <<>>,
     tags |-> {}, is_anonymous |-> FALSE]
NoComment ==
    [status |-> "none", post_id |-> "none", author_id |-> "none",
     parent_comment_id |-> "null", content |-> "none", is_expert_response |-> FALSE,
     is_anonymous |-> FALSE]

\* INSERT INTO posts (author_id, content, is_anonymous, status) VALUES ($1, $2, $3, 'active')
\* is_anonymous is the controller's default (isAnonymous = true) unless stated.
NewPostRow(authorId, content) ==
    [status |-> "active", author_id |-> authorId, content |-> content, comment_count |-> 0,
     expert_responded |-> FALSE, urgency_level |-> "low", sentiment_score |-> <<>>,
     tags |-> {}, is_anonymous |-> TRUE]

\* INSERT INTO comments (post_id, author_id, parent_comment_id, content, is_anonymous,
\* is_expert_response); the statement names no status: the row starts 'active'.
NewCommentRow(postId, authorId, parentCommentId, content, isExpertResponse) ==
    [status |-> "active", post_id |-> postId, author_id |-> authorId,
     parent_comment_id |-> parentCommentId, content |-> content,
     is_expert_response |-> isExpertResponse, is_anonymous |-> TRUE]

\* The posts and comments the vote requests are about: post p1 of its author with one
\* comment, c1.
SeedPosts ==
    [p \in PostIds |->
        IF p \in Posts THEN [NewPostRow(AuthorOf(p), "hello") EXCEPT !.comment_count = 1]
        ELSE NoPost]
SeedComments ==
    [c \in CommentIds |->
        IF c \in Comments THEN NewCommentRow("p1", AuthorOf(c), "null", "hello", FALSE)
        ELSE NoComment]

\* The tables and connections at the start, and how calls arrive.
InitTables(db, m, posts, comments, tags) ==
    /\ voteRows = db.voteRows
    /\ upvotes = db.upvotes
    /\ downvotes = db.downvotes
    /\ notifications = db.notifications
    /\ req = [r \in Reqs |-> IdleReq]
    /\ hist = <<>>
    /\ postRows = posts
    /\ commentRows = comments
    /\ commentNotes = {}
    /\ contentOps = 0
    /\ answer = <<>>
    /\ clients = [log |-> <<>>, call |-> <<>>]
    /\ tagRows = tags
    /\ strayVotes = {}
    /\ mode = m

InitStore(db, m) == InitTables(db, m, SeedPosts, SeedComments, {})

\* The list processCommentThreads is given, before any run.
InitList(comments) ==
    /\ given = comments
    /\ flat = comments
    /\ threads = <<>>

\* No feed request has been made.
InitNoFeed ==
    /\ feedPosts = <<>>
    /\ feedQuery = <<>>
    /\ feedSql = <<>>
    /\ feedResponse = <<>>

InitAll(db, m, comments) == InitStore(db, m) /\ InitList(comments) /\ InitNoFeed

InitWith(db, m) == InitAll(db, m, <<>>)

\* Databases the overlapping requests start from: empty, or after one vote.
OverlapStart ==
    {EmptyDb} \cup {SerialVote(EmptyDb, s, u, t) : s \in Subjects, u \in Users, t \in VoteTypes}

Init == InitWith(EmptyDb, "serial")
InitDistinct == \E db \in OverlapStart : InitWith(db, "distinct")
InitConcurrent == \E db \in OverlapStart : InitWith(db, "concurrent")
InitDirect == InitWith(EmptyDb, "direct")

SetDb(db) ==
    /\ voteRows' = db.voteRows
    /\ upvotes' = db.upvotes
    /\ downvotes' = db.downvotes
    /\ notifications' = db.notifications

DbUnchanged == UNCHANGED <<voteRows, upvotes, downvotes, notifications>>

\* A statement rejects: control passes to the catch block.
Throw(r, why) ==
    req' = [req EXCEPT ![r] = [@ EXCEPT !.pc = "ROLLBACK",
                                         !.failedAt = req[r].pc,
                                         !.err = why]]

Goto(r, next) == req' = [req EXCEPT ![r] = [@ EXCEPT !.pc = next]]

\* The row lock another open transaction holds on the vote row of r's pair.
VoteRowLocked(r, ops) ==
    \E q \in Reqs \ {r} :
        /\ InTxn(q)
        /\ req[q].s = req[r].s
        /\ req[q].u = req[r].u
        /\ req[q].wVote \in ops

\* The row lock another open transaction holds on r's subject row.
SubjectRowLocked(r) ==
    \E q \in Reqs \ {r} :
        /\ InTxn(q)
        /\ req[q].s = req[r].s
        /\ req[q].lockSubj

\* Whether the open transaction of call q holds a write.
Wrote(q) == q.wVote # "none" \/ q.lockSubj \/ q.wNotif # <<>>

\* A committed call as the log keeps it: its arguments, the vote it found, when it
\* began, the database it began on and the database it committed.
HistEntry(q) ==
    [s |-> q.s, u |-> q.u, t |-> q.t, existingVote |-> q.existingVote,
     seq |-> q.seq, begunAt |-> q.begunAt, commitNo |-> q.commitNo,
     pre |-> q.pre, post |-> q.post]

\* voteOnPost(postId, userId, voteType) / voteOnComment(commentId, userId, voteType)
\* is called; getClient() hands out a pooled connection.
Begin(r, s, u, t) ==
    /\ req[r].pc = "idle"
    /\ \A q \in Reqs : req[q].pc = "idle" => ~(q < r)
    /\ Started < (CASE mode = "serial" -> MaxOps
                     [] mode = "direct" -> MaxDirect
                     [] OTHER -> MaxOverlap)
    /\ t \in VoteTypes \/ mode = "direct"
    /\ mode \in {"serial", "direct"} => \A q \in Reqs : ~Active(q)
    /\ mode \notin {"serial", "direct"} => \A q \in Reqs : Active(q) => req[q].s = s
    /\ mode = "distinct" => \A q \in Reqs : Active(q) => req[q].u # u
    /\ req' = [req EXCEPT ![r] = [IdleReq EXCEPT !.pc = "BEGIN", !.s = s, !.u = u,
                                                 !.t = t, !.begunAt = Len(hist),
                                                 !.seq = Started,
                                                 !.pre = Committed]]
    /\ DbUnchanged
    /\ UNCHANGED <<hist, contentVars, threadVars, feedVars, answer, storeVars, mode>>

\* await client.query("BEGIN")
BeginTxn(r) ==
    /\ req[r].pc = "BEGIN"
    /\ \E fail \in MayFail :
        IF fail THEN Throw(r, "storage") ELSE Goto(r, "SELECT_VOTE")
    /\ DbUnchanged
    /\ UNCHANGED <<hist, contentVars, threadVars, feedVars, answer, storeVars, mode>>

\* SELECT vote_type FROM post_votes WHERE post_id = $1 AND user_id = $2
SelectExistingVote(r) ==
    /\ req[r].pc = "SELECT_VOTE"
    /\ \E fail \in MayFail :
        IF fail THEN Throw(r, "storage")
        ELSE \E ev \in SelectVoteType(req[r].s, req[r].u) :
                req' = [req EXCEPT ![r] =
                          [@ EXCEPT !.existingVote = ev,
                                    !.pc = VoteBranch(ev, req[r].t)]]
    /\ DbUnchanged
    /\ UNCHANGED <<hist, contentVars, threadVars, feedVars, answer, storeVars, mode>>

\* DELETE FROM post_votes WHERE post_id = $1 AND user_id = $2   (same vote again)
DeleteVote(r) ==
    /\ req[r].pc = "DELETE_VOTE"
    /\ \E fail \in MayFail :
        IF fail THEN Throw(r, "storage")
        ELSE /\ ~VoteRowLocked(r, {"delete", "update"})
             /\ req' = [req EXCEPT ![r] =
                          [@ EXCEPT !.wVote = IF RowsOf(voteRows, req[r].s, req[r].u) > 0
                                              THEN "delete" ELSE "none",
                                    !.pc = "UPDATE_COUNTS"]]
    /\ DbUnchanged
    /\ UNCHANGED <<hist, contentVars, threadVars, feedVars, answer, storeVars, mode>>

\* UPDATE post_votes SET vote_type = $3 WHERE post_id = $1 AND user_id = $2   (changed vote)
UpdateVote(r) ==
    /\ req[r].pc = "UPDATE_VOTE"
    /\ \E fail \in MayFail :
        IF fail THEN Throw(r, "storage")
        ELSE /\ ~VoteRowLocked(r, {"delete", "update"})
             /\ \E stored \in VoteTypeStored(req[r].t) :
                   IF ~stored THEN Throw(r, "vote_type")
                   ELSE req' = [req EXCEPT ![r] =
                                  [@ EXCEPT !.wVote = IF RowsOf(voteRows, req[r].s, req[r].u) > 0
                                                      THEN "update" ELSE "none",
                                            !.pc = "UPDATE_COUNTS"]]
    /\ DbUnchanged
    /\ UNCHANGED <<hist, contentVars, threadVars, feedVars, answer, storeVars, mode>>

\* INSERT INTO post_votes (post_id, user_id, vote_type) VALUES ($1, $2, $3)   (new vote)
InsertVote(r) ==
    /\ req[r].pc = "INSERT_VOTE"
    /\ \E fail \in MayFail :
        IF fail THEN Throw(r, "storage")
        ELSE /\ ~VoteRowLocked(r, {"insert", "delete"})
             /\ \E stored \in VoteTypeStored(req[r].t) :
                   IF ~stored THEN Throw(r, "vote_type")
                   ELSE IF PrimaryKeyViolation(voteRows, req[r].s, req[r].u)
                   THEN Throw(r, "unique")
                   ELSE req' = [req EXCEPT ![r] =
                                  [@ EXCEPT !.wVote = "insert", !.pc = "UPDATE_COUNTS"]]
    /\ DbUnchanged
    /\ UNCHANGED <<hist, contentVars, threadVars, feedVars, answer, storeVars, mode>>

\* UPDATE posts SET upvotes = upvotes +/- 1 [, downvotes = downvotes +/- 1] WHERE post_id = $1
UpdateCounts(r) ==
    /\ req[r].pc = "UPDATE_COUNTS"
    /\ \E fail \in MayFail :
        IF fail THEN Throw(r, "storage")
        ELSE /\ ~SubjectRowLocked(r)
             /\ LET d == CounterDelta(req[r].existingVote, req[r].t) IN
                req' = [req EXCEPT ![r] =
                          [@ EXCEPT !.lockSubj = TRUE, !.dUp = d.up, !.dDown = d.down,
                                    !.pc = "SELECT_AUTHOR"]]
    /\ DbUnchanged
    /\ UNCHANGED <<hist, contentVars, threadVars, feedVars, answer, storeVars, mode>>

\* SELECT author_id FROM posts WHERE post_id = $1, then the test for the notification
SelectAuthor(r) ==
    /\ req[r].pc = "SELECT_AUTHOR"
    /\ \E fail \in MayFail :
        IF fail THEN Throw(r, "storage")
        ELSE LET a == AuthorOf(req[r].s) IN
             req' = [req EXCEPT ![r] =
                       [@ EXCEPT !.authorId = a,
                                 !.pc = IF ShouldNotify(a, req[r].u, req[r].existingVote,
                                                        req[r].t)
                                        THEN "INSERT_NOTIFICATION" ELSE "COMMIT"]]
    /\ DbUnchanged
    /\ UNCHANGED <<hist, contentVars, threadVars, feedVars, answer, storeVars, mode>>

\* INSERT INTO notifications (recipient_id, notification_type, message, related_post_id)
InsertNotification(r) ==
    /\ req[r].pc = "INSERT_NOTIFICATION"
    /\ \E fail \in MayFail :
        IF fail THEN Throw(r, "storage")
        ELSE req' = [req EXCEPT ![r] =
                       [@ EXCEPT !.wNotif = <<UpvoteNotification(req[r].authorId, req[r].s)>>,
                                 !.pc = "COMMIT"]]
    /\ DbUnchanged
    /\ UNCHANGED <<hist, contentVars, threadVars, feedVars, answer, storeVars, mode>>

\* await client.query("COMMIT"); release();
Commit(r) ==
    /\ req[r].pc = "COMMIT"
    /\ \E fail \in MayFail :
        IF fail
        THEN Throw(r, "storage") /\ DbUnchanged
        ELSE LET db == AfterCommit(Committed, req[r]) IN
             /\ SetDb(db)
             /\ req' = [req EXCEPT ![r] = [@ EXCEPT !.pc = "REREAD", !.released = 1,
                                                     !.committed = TRUE, !.post = db,
                                                     !.commitNo = Commits + 1]]
    /\ UNCHANGED <<hist, contentVars, threadVars, feedVars, answer, storeVars, mode>>

\* catch (error) { await client.query("ROLLBACK"); release(); throw error; }
Rollback(r) ==
    /\ req[r].pc = "ROLLBACK"
    /\ \E fail \in BOOLEAN :
        req' = [req EXCEPT ![r] = [@ EXCEPT !.pc = "THROWN",
                                            !.released = IF fail THEN 0 ELSE 1]]
    /\ SetDb(AfterRollback(Committed, req[r]))
    /\ UNCHANGED <<hist, contentVars, threadVars, feedVars, answer, storeVars, mode>>

\* return getPostById(postId) / getCommentById(commentId): the subject is read again
Reread(r) ==
    /\ req[r].pc = "REREAD"
    /\ \E fail \in MayFail :
        IF fail
        THEN req' = [req EXCEPT ![r] = [@ EXCEPT !.pc = "THROWN", !.failedAt = "REREAD",
                                                 !.err = "storage"]]
        ELSE req' = [req EXCEPT ![r] =
                       [@ EXCEPT !.pc = "USER_VOTE",
                                 !.returned = [upvotes |-> upvotes[req[r].s],
                                               downvotes |-> downvotes[req[r].s]]]]
    /\ DbUnchanged
    /\ UNCHANGED <<hist, contentVars, threadVars, feedVars, answer, storeVars, mode>>

\* Controller: votes = await getUserVotesForPosts(userId, [postId]) (comments:
\* getUserVotesForComments); userVote = votes[postId] || null
GetUserVotes(r) ==
    /\ req[r].pc = "USER_VOTE"
    /\ \E fail \in MayFail :
        IF fail
        THEN req' = [req EXCEPT ![r] = [@ EXCEPT !.pc = "THROWN", !.failedAt = "USER_VOTE",
                                                 !.err = "storage"]]
        ELSE \E v \in SelectVoteType(req[r].s, req[r].u) :
                req' = [req EXCEPT ![r] = [@ EXCEPT !.pc = "RETURNED", !.user_vote = v]]
    /\ DbUnchanged
    /\ UNCHANGED <<hist, contentVars, threadVars, feedVars, answer, storeVars, mode>>

\* The promise of the call settles: the caller has the subject or the error.  A call
\* that committed enters the log.
Settle(r) ==
    /\ req[r].pc \in {"RETURNED", "THROWN"}
    /\ hist' = IF req[r].committed THEN Append(hist, HistEntry(req[r])) ELSE hist
    /\ req' = [req EXCEPT ![r] = IdleReq]
    /\ DbUnchanged
    /\ UNCHANGED <<contentVars, threadVars, feedVars, answer, storeVars, mode>>

VoteOnPost(r) == \E u \in Users, t \in VoteTypeValues : \E s \in Posts : Begin(r, s, u, t)
VoteOnComment(r) == \E u \in Users, t \in VoteTypeValues : \E s \in Comments : Begin(r, s, u, t)

Next ==
    \E r \in Reqs :
        \/ VoteOnPost(r)
        \/ VoteOnComment(r)
        \/ BeginTxn(r)
        \/ SelectExistingVote(r)
        \/ DeleteVote(r)
        \/ UpdateVote(r)
        \/ InsertVote(r)
        \/ UpdateCounts(r)
        \/ SelectAuthor(r)
        \/ InsertNotification(r)
        \/ Commit(r)
        \/ Rollback(r)
        \/ Reread(r)
        \/ GetUserVotes(r)
        \/ Settle(r)

\* Requests one at a time.
Spec == Init /\ [][Next]_vars
\* Requests overlap, never two of the same user.
SpecDistinct == InitDistinct /\ [][Next]_vars
\* Requests overlap freely.
SpecConcurrent == InitConcurrent /\ [][Next]_vars
\* Requests one at a time, the model functions called with any string as voteType.
SpecDirect == InitDirect /\ [][Next]_vars

\* Number of vote rows of subject s with type t.
RECURSIVE SumOver(_, _)
SumOver(f, S) ==
    IF S = {} THEN 0
    ELSE LET x == CHOOSE y \in S : TRUE IN f[x] + SumOver(f, S \ {x})

RowCount(rows, s, t) == SumOver([u \in Users |-> rows[<<s, u, t>>]], Users)

(***************************************************************************)
(* Properties                                                              *)
(***************************************************************************)

\* Statements that run between BEGIN and COMMIT, both included.
TxnStatements == {"BEGIN", "SELECT_VOTE", "DELETE_VOTE", "UPDATE_VOTE", "INSERT_VOTE",
                  "UPDATE_COUNTS", "SELECT_AUTHOR", "INSERT_NOTIFICATION", "COMMIT"}

Quiescent == \A r \in Reqs : ~Active(r)

\* hist[i] and hist[i + 1] are two committed votes of one user on one subject, the
\* first one cast while the user had no vote row on the subject.
FreshPair(i, t1, t2) ==
    /\ i \in 1 .. (Len(hist) - 1)
    /\ hist[i].s = hist[i + 1].s /\ hist[i].u = hist[i + 1].u
    /\ hist[i].t = t1 /\ hist[i + 1].t = t2
    /\ RowsOf(hist[i].pre.voteRows, hist[i].s, hist[i].u) = 0

\* C1: with calls one at a time, a subject's upvotes is the number of its vote rows
\* of type 'up' and its downvotes the number of its vote rows of type 'down'.
C1_CountersEqualVoteRows ==
    \A s \in Subjects :
        /\ upvotes[s] = RowCount(voteRows, s, "up")
        /\ downvotes[s] = RowCount(voteRows, s, "down")

\* C1 witness: a subject holds an up row and a down row after a retraction or a switch.
C1_Witness ==
    \E s \in Subjects :
        /\ upvotes[s] = 1 /\ downvotes[s] = 1
        /\ \E i \in DOMAIN hist :
              hist[i].s = s /\ hist[i].existingVote # "none"

\* C2: an up vote of a user without a vote row, then at once an up vote of the same
\* user on the same subject: upvotes is back at its value before the first vote and
\* the pair has no vote row.
C2_ToggleOff ==
    \A i \in DOMAIN hist :
        FreshPair(i, "up", "up") =>
            /\ hist[i].post.upvotes[hist[i].s] = hist[i].pre.upvotes[hist[i].s] + 1
            /\ hist[i + 1].post.upvotes[hist[i].s] = hist[i].pre.upvotes[hist[i].s]
            /\ hist[i + 1].post.downvotes[hist[i].s] = hist[i].pre.downvotes[hist[i].s]
            /\ RowsOf(hist[i + 1].post.voteRows, hist[i].s, hist[i].u) = 0

\* C2 witness: an up vote was retracted on a subject that another user had upvoted.
C2_Witness ==
    \E i \in DOMAIN hist :
        /\ FreshPair(i, "up", "up")
        /\ hist[i].pre.upvotes[hist[i].s] = 1
        /\ hist[i + 1].existingVote = "up"

\* C3: an up vote of a user without a vote row, then a down vote of the same user on
\* the same subject (or down, then up): the pair has exactly one vote row, of the
\* second type, the counter of the first type is at its baseline and the counter of
\* the second type at baseline + 1.
C3_Switch ==
    \A i \in DOMAIN hist :
        \A t1 \in VoteTypes, t2 \in VoteTypes :
            (t1 # t2 /\ FreshPair(i, t1, t2)) =>
                LET s == hist[i].s
                    u == hist[i].u
                    base == hist[i].pre
                    now == hist[i + 1].post
                    Counter(db, t) == IF t = "up" THEN db.upvotes[s] ELSE db.downvotes[s]
                IN /\ now.voteRows[<<s, u, t2>>] = 1
                   /\ now.voteRows[<<s, u, t1>>] = 0
                   /\ Counter(now, t1) = Counter(base, t1)
                   /\ Counter(now, t2) = Counter(base, t2) + 1

\* C3 witness: a down vote switched to up on a subject that already had an up vote.
C3_Witness ==
    \E i \in DOMAIN hist :
        /\ FreshPair(i, "down", "up")
        /\ hist[i].pre.upvotes[hist[i].s] = 1
        /\ hist[i + 1].existingVote = "down"

\* C4: with calls one at a time from counters 0 and no vote rows, upvotes and
\* downvotes never go below 0.
C4_CountersNonNegative ==
    \A s \in Subjects : upvotes[s] >= 0 /\ downvotes[s] >= 0

\* C4 witness: a retraction or a switch took a counter from 1 down to 0.
C4_Witness ==
    \E i \in DOMAIN hist :
        /\ hist[i].existingVote # "none"
        /\ \/ hist[i].pre.upvotes[hist[i].s] = 1 /\ upvotes[hist[i].s] = 0
           \/ hist[i].pre.downvotes[hist[i].s] = 1 /\ downvotes[hist[i].s] = 0

\* The two calls of the behaviour were of one user on one subject, overlapped, and
\* both committed.
SameUserRaceOver ==
    /\ Quiescent
    /\ Len(hist) = 2
    /\ hist[1].s = hist[2].s /\ hist[1].u = hist[2].u
    /\ hist[2].begunAt = 0

\* C5: two overlapping vote requests of one user on one subject are serialized: the
\* committed database is what the two calls give when run one after the other in some
\* order, so the counters equal the vote-row counts and the pair has at most one row.
C5_SameUserRaceSerialized ==
    SameUserRaceOver =>
        LET first == IF hist[1].seq = 0 THEN hist[1] ELSE hist[2]
            db0 == first.pre
            a == hist[1]
            b == hist[2]
        IN /\ Committed \in {SerialVote(SerialVote(db0, a.s, a.u, a.t), b.s, b.u, b.t),
                             SerialVote(SerialVote(db0, b.s, b.u, b.t), a.s, a.u, a.t)}
           /\ upvotes[a.s] = RowCount(voteRows, a.s, "up")
           /\ downvotes[a.s] = RowCount(voteRows, a.s, "down")
           /\ RowsOf(voteRows, a.s, a.u) <= 1

\* No request waits for a row lock whose holder waits too.
NoLockCycle ==
    \A r \in Reqs :
        (req[r].pc = "UPDATE_COUNTS" /\ SubjectRowLocked(r)) =>
            \E q \in Reqs \ {r} :
                /\ req[q].lockSubj
                /\ req[q].pc \in {"SELECT_AUTHOR", "INSERT_NOTIFICATION", "COMMIT", "ROLLBACK"}

\* C6: overlapping vote requests of different users on one subject: each counter
\* equals the number of vote rows of its type in every committed state (no lost
\* update), a request fails only when the storage rejects a statement, and the wait
\* for the subject's row lock always ends.
C6_DistinctUsersNoLostUpdate ==
    /\ \A s \in Subjects :
          /\ RowCount(voteRows, s, "up") = upvotes[s]
          /\ RowCount(voteRows, s, "down") = downvotes[s]
    /\ \A r \in Reqs : req[r].pc \in {"ROLLBACK", "THROWN"} => req[r].err = "storage"
    /\ NoLockCycle

\* C6 witness: two calls of different users on one subject both began on the same
\* database, both committed, and the counters changed by both.
C6_Witness ==
    /\ Len(hist) = 2
    /\ hist[1].s = hist[2].s /\ hist[1].u # hist[2].u
    /\ hist[1].pre = hist[2].pre
    /\ hist[1].t = "up" /\ hist[2].t = "up"
    /\ hist[1].existingVote = "none" /\ hist[2].existingVote = "none"
    /\ upvotes[hist[1].s] = hist[1].pre.upvotes[hist[1].s] + 2

\* C7: in every state, overlapping requests included, a (subject, user) pair has at
\* most one vote row.
C7_AtMostOneVoteRow ==
    \A s \in Subjects, u \in Users : RowsOf(voteRows, s, u) <= 1

\* C7 witness: of two overlapping new votes of one pair, one was rejected by the
\* unique key after the other had committed.
C7_Witness ==
    \E r \in Reqs :
        /\ req[r].pc = "THROWN"
        /\ req[r].err = "unique"
        /\ RowsOf(voteRows, req[r].s, req[r].u) = 1

\* C8: a call in which a statement of the transaction fails reaches the catch block
\* and ends in an error without a commit; before and after the ROLLBACK the vote rows,
\* counters and notifications are what they were when the call began.
C8_FailedTransactionRollsBack ==
    \A r \in Reqs :
        req[r].failedAt \in TxnStatements =>
            /\ req[r].pc \in {"ROLLBACK", "THROWN"}
            /\ ~req[r].committed
            /\ Committed = req[r].pre

\* C8 witness: the COMMIT of a new up vote with its notification failed and the call
\* has thrown.
C8_Witness ==
    \E r \in Reqs :
        /\ req[r].pc = "THROWN"
        /\ req[r].failedAt = "COMMIT"
        /\ Wrote(req[r]) /\ req[r].wNotif # <<>>
        /\ req[r].existingVote = "none" /\ req[r].t = "up"

\* C9: the failure of the notification insert of a vote does not fail the call and
\* does not roll the vote back: the call returns, the vote row and the counter
\* stand, only the notification is missing.
C9_NotificationFailureKeepsVote ==
    \A r \in Reqs :
        (req[r].failedAt = "INSERT_NOTIFICATION" /\ req[r].pc \in {"THROWN", "RETURNED"}) =>
            /\ req[r].pc = "RETURNED"
            /\ voteRows[<<req[r].s, req[r].u, "up">>] = 1
            /\ upvotes[req[r].s] = req[r].pre.upvotes[req[r].s] + 1
            /\ notifications = req[r].pre.notifications

\* The notifications after one more upvote notification to the author of s.
WithUpvoteNotification(ns, s) ==
    [n \in NotificationRows |->
        IF n = UpvoteNotification(AuthorOf(s), s) THEN ns[n] + 1 ELSE ns[n]]

\* C10: a committed vote adds one upvote notification for the subject's author when the
\* pair had no vote row, the vote is 'up' and the voter is not the author; in every
\* other case (down vote, toggle-off, switch, self-vote) it adds none.
C10_NotifiesExactlyNewUpvotes ==
    \A i \in DOMAIN hist :
        LET s == hist[i].s
            u == hist[i].u
            fresh == RowsOf(hist[i].pre.voteRows, s, u) = 0
        IN hist[i].post.notifications =
              IF fresh /\ hist[i].t = "up" /\ u # AuthorOf(s)
              THEN WithUpvoteNotification(hist[i].pre.notifications, s)
              ELSE hist[i].pre.notifications

\* C10 witness: a new up vote notified the author, a switch to up did not.
C10_Witness ==
    /\ \E i \in DOMAIN hist :
          /\ hist[i].t = "up" /\ hist[i].existingVote = "none"
          /\ hist[i].u # AuthorOf(hist[i].s)
          /\ hist[i].post.notifications # hist[i].pre.notifications
    /\ \E i \in DOMAIN hist :
          /\ hist[i].t = "up" /\ hist[i].existingVote = "down"
          /\ hist[i].u # AuthorOf(hist[i].s)
          /\ hist[i].post.notifications = hist[i].pre.notifications

\* A committed call leaves the database that the whole call computes from the
\* database it began on (calls one at a time).
SerialVoteAgrees ==
    \A i \in DOMAIN hist :
        hist[i].post = SerialVote(hist[i].pre, hist[i].s, hist[i].u, hist[i].t)

\* The log is the scenario "A votes up, B votes up, A votes down" on post p, cast one
\* after the other from upvotes = 0, downvotes = 0 and no vote rows, by two users
\* who are not the author of p.
ScenarioABA(p, A, B) ==
    /\ Len(hist) = 3
    /\ A # B /\ A # AuthorOf(p) /\ B # AuthorOf(p)
    /\ hist[1].s = p /\ hist[1].u = A /\ hist[1].t = "up"
    /\ hist[2].s = p /\ hist[2].u = B /\ hist[2].t = "up"
    /\ hist[3].s = p /\ hist[3].u = A /\ hist[3].t = "down"
    /\ hist[1].pre.upvotes[p] = 0 /\ hist[1].pre.downvotes[p] = 0
    /\ \A u \in Users : RowsOf(hist[1].pre.voteRows, p, u) = 0
    /\ hist[1].pre.notifications[UpvoteNotification(AuthorOf(p), p)] = 0

\* C11: after "A votes up, B votes up, A votes down" on a post with counters 0 whose
\* author is neither A nor B, upvotes was 1, then 2, then 1, downvotes is 1 at the
\* end, A's vote row is 'down', B's is 'up', and the author has exactly two upvote
\* notifications.
C11_ScenarioUpUpDown ==
    \A p \in Posts : \A A \in Users, B \in Users :
        ScenarioABA(p, A, B) =>
            /\ hist[1].post.upvotes[p] = 1 /\ hist[1].post.downvotes[p] = 0
            /\ hist[2].post.upvotes[p] = 2 /\ hist[2].post.downvotes[p] = 0
            /\ hist[3].post.upvotes[p] = 1 /\ hist[3].post.downvotes[p] = 1
            /\ hist[3].post.voteRows[<<p, A, "down">>] = 1
            /\ hist[3].post.voteRows[<<p, A, "up">>] = 0
            /\ hist[3].post.voteRows[<<p, B, "up">>] = 1
            /\ hist[3].post.voteRows[<<p, B, "down">>] = 0
            /\ hist[1].post.notifications[UpvoteNotification(AuthorOf(p), p)] = 1
            /\ hist[2].post.notifications[UpvoteNotification(AuthorOf(p), p)] = 2
            /\ hist[3].post.notifications[UpvoteNotification(AuthorOf(p), p)] = 2
            /\ Quiescent =>
                   /\ upvotes[p] = 1 /\ downvotes[p] = 1
                   /\ voteRows[<<p, A, "down">>] = 1 /\ voteRows[<<p, B, "up">>] = 1
                   /\ notifications[UpvoteNotification(AuthorOf(p), p)] = 2

\* C11 witness: the three calls of the scenario have committed and settled.
C11_Witness ==
    /\ Quiescent
    /\ \E p \in Posts : \E A \in Users, B \in Users :
          /\ ScenarioABA(p, A, B)
          /\ hist[3].existingVote = "up"

\* Whether call q has sent a statement to the storage.
StorageTouched(q) == q.pc \notin {"idle", "BEGIN"}

\* C12: a call of voteOnPost / voteOnComment whose voteType is neither 'up' nor 'down'
\* is rejected by the function itself before it sends a statement: it inserts, updates
\* and deletes no vote row and changes no counter.
C12_LedgerRejectsUnknownVoteType ==
    \A r \in Reqs :
        (Active(r) /\ req[r].t \notin VoteTypes) =>
            /\ ~StorageTouched(req[r])
            /\ ~Wrote(req[r])
            /\ Committed = req[r].pre

\* A call with an unrecognized voteType committed a vote row of that type and a change
\* of downvotes.
UnknownVoteTypeCommitted ==
    \E r \in Reqs :
        /\ req[r].t \notin VoteTypes /\ req[r].committed
        /\ voteRows[<<req[r].s, req[r].u, req[r].t>>] = 1
        /\ downvotes[req[r].s] = req[r].pre.downvotes[req[r].s] + 1

\* The vote of the pair once the call has committed: none after a toggle-off, the
\* new type after a new vote or a switch.
ResultingVote(existingVote, voteType) ==
    IF existingVote = voteType THEN "none" ELSE voteType

\* The calls that committed after call q, in flight or settled.
CommittedAfter(q) ==
    {req[r] : r \in {x \in Reqs : req[x].committed /\ req[x].commitNo > q.commitNo}}
    \cup {hist[i] : i \in {j \in DOMAIN hist : hist[j].commitNo > q.commitNo}}

\* C13: the response of a vote request carries the counters of the subject as the
\* call committed them (or as a later call on them committed them), and user_vote is
\* the caller's vote as the call left it, also when vote requests overlap.
C13_ResponseShowsAppliedVote ==
    \A r \in Reqs :
        req[r].pc = "RETURNED" =>
            LET q == req[r]
                shown == {[upvotes |-> c.post.upvotes[q.s], downvotes |-> c.post.downvotes[q.s]] :
                            c \in {q} \cup CommittedAfter(q)}
            IN /\ q.returned \in shown
               /\ q.user_vote = ResultingVote(q.existingVote, q.t)

\* C13, calls one at a time: the response carries the counters the call committed and
\* the caller's resulting vote.
ResponseShowsAppliedVoteSerial ==
    \A r \in Reqs :
        req[r].pc = "RETURNED" =>
            /\ req[r].returned = [upvotes |-> req[r].post.upvotes[req[r].s],
                                  downvotes |-> req[r].post.downvotes[req[r].s]]
            /\ req[r].user_vote = ResultingVote(req[r].existingVote, req[r].t)

(***************************************************************************)
(* Posts and comments: createPost, updatePost, deletePost,                 *)
(* updatePostSentiment (src/src/models/post.model.ts), createComment,      *)
(* updateComment, deleteComment (comment model) and moderateComment        *)
(* (moderation service), each behind its controller where it has one, one  *)
(* call at a time.  A call that runs in a transaction either commits all   *)
(* its statements or, when the storage rejects one, none.                  *)
(***************************************************************************)

\* The next id of the sequence ids that no row of rows has, "none" when all are taken.
FreshId(ids, rows) ==
    LET free == {i \in DOMAIN ids : rows[ids[i]].status = "none"}
    IN IF free = {} THEN "none"
       ELSE ids[CHOOSE i \in free : \A j \in free : i <= j]

\* mockModerationCheck: the content matches none of the prohibited patterns.
IsApproved(content) == content # "hate"

\* A notification row of createComment: to the post's author ("post") or to the
\* parent comment's author ("reply").
CommentNotification(recipient, about, postId, commentId, isExpertResponse) ==
    [recipient_id |-> recipient,
     notification_type |-> IF isExpertResponse THEN "expertResponse" ELSE "comment",
     about |-> about,
     related_post_id |-> postId,
     related_comment_id |-> commentId,
     priority |-> IF isExpertResponse THEN "high" ELSE "medium"]

\* Variant: deleteComment removes the row (DELETE FROM comments).
DeletedCommentRowRemoved(row) == NoComment

\* UPDATE comments SET status = 'deleted', updated_at = NOW() WHERE comment_id = $1
DeletedCommentRow(row) == [row EXCEPT !.status = "deleted"]

\* UPDATE posts SET status = 'deleted', updated_at = NOW() WHERE post_id = $1
DeletedPostRow(row) == [row EXCEPT !.status = "deleted"]

\* Variant: deleting a comment also clears the post's expert_responded.
PostAfterCommentDeletedUnflagged(row) ==
    [row EXCEPT !.comment_count = @ - 1, !.expert_responded = FALSE]

\* deleteComment: UPDATE posts SET comment_count = comment_count - 1 WHERE post_id = $1
PostAfterCommentDeleted(row) == [row EXCEPT !.comment_count = @ - 1]

\* Variant: deleting a post or a comment also removes its vote rows and resets its counters.
VotesAfterDeleteCascade(db, s) ==
    IF s \notin Subjects THEN db
    ELSE [db EXCEPT !.voteRows = [k \in VoteKeys |-> IF k[1] = s THEN 0 ELSE db.voteRows[k]],
                    !.upvotes = [@ EXCEPT ![s] = 0],
                    !.downvotes = [@ EXCEPT ![s] = 0]]

\* deletePost / deleteComment send no statement to post_votes / comment_votes and do
\* not write upvotes / downvotes.
VotesAfterDelete(db, s) == db

\* A post or comment operation is called.
ContentStep ==
    /\ mode = "content"
    /\ contentOps < MaxContentOps
    /\ UNCHANGED <<req, hist, threadVars, feedVars, answer, storeVars, mode>>

\* The operation has run: it counts when it changed a table.
Counted ==
    contentOps' = IF /\ postRows' = postRows /\ commentRows' = commentRows
                     /\ commentNotes' = commentNotes /\ voteRows' = voteRows
                     /\ upvotes' = upvotes /\ downvotes' = downvotes
                  THEN contentOps ELSE contentOps + 1

\* createPost(postData): BEGIN; INSERT INTO posts ... RETURNING *; COMMIT
CreatePost(authorId, content) ==
    /\ ContentStep
    /\ \E fail \in BOOLEAN :
        LET id == FreshId(PostIdSeq, postRows) IN
        IF fail \/ id = "none"
        THEN UNCHANGED postRows
        ELSE postRows' = [postRows EXCEPT ![id] = NewPostRow(authorId, content)]
    /\ DbUnchanged
    /\ UNCHANGED <<commentRows, commentNotes>>
    /\ Counted

\* Controller updatePost: getPostById, the owner test, then the model's updatePost:
\* UPDATE posts SET [content], [urgency_level], [status], updated_at = NOW()
UpdatePost(userId, postId, content, urgencyLevel, status) ==
    /\ ContentStep
    /\ \E fail \in BOOLEAN :
        IF fail \/ postRows[postId].status = "none" \/ postRows[postId].author_id # userId
        THEN UNCHANGED postRows
        ELSE postRows' =
               [postRows EXCEPT ![postId] =
                  [@ EXCEPT !.content = IF content = "undefined" THEN @ ELSE content,
                            !.urgency_level = IF urgencyLevel = "undefined" THEN @
                                              ELSE urgencyLevel,
                            !.status = IF status = "undefined" THEN @ ELSE status]]
    /\ DbUnchanged
    /\ UNCHANGED <<commentRows, commentNotes>>
    /\ Counted

\* Controller deletePost: getPostById, the owner test, then the model's deletePost
DeletePost(userId, postId) ==
    /\ ContentStep
    /\ \E fail \in BOOLEAN :
        IF fail \/ postRows[postId].status = "none" \/ postRows[postId].author_id # userId
        THEN UNCHANGED postRows /\ DbUnchanged
        ELSE /\ postRows' = [postRows EXCEPT ![postId] = DeletedPostRow(@)]
             /\ SetDb(VotesAfterDelete(Committed, postId))
    /\ UNCHANGED <<commentRows, commentNotes>>
    /\ Counted

\* updatePostSentiment(postId, sentimentScore, urgencyLevel):
\* UPDATE posts SET sentiment_score = $2, urgency_level = $3 WHERE post_id = $1
UpdatePostSentiment(postId, sentimentScore, urgencyLevel) ==
    /\ ContentStep
    /\ \E fail \in BOOLEAN :
        IF fail \/ postRows[postId].status = "none"
        THEN UNCHANGED postRows
        ELSE postRows' = [postRows EXCEPT ![postId] =
                            [@ EXCEPT !.sentiment_score = <<sentimentScore>>,
                                      !.urgency_level = urgencyLevel]]
    /\ DbUnchanged
    /\ UNCHANGED <<commentRows, commentNotes>>
    /\ Counted

\* Whether the storage takes parentCommentId as parent_comment_id.  The column's
\* definition is not part of the sources: an id of no comment may be taken or rejected.
ParentStored(parentCommentId) ==
    IF parentCommentId = "null" \/ commentRows[parentCommentId].status # "none"
    THEN {TRUE} ELSE BOOLEAN

\* Controller createComment: getPostById and the test post.status === "active"; then
\* the model's createComment: BEGIN; INSERT INTO comments; UPDATE posts SET
\* comment_count = comment_count + 1; [UPDATE posts SET expert_responded = TRUE];
\* the notifications to the post's author and to the parent comment's author; COMMIT
CreateComment(authorId, postId, content, parentCommentId, isExpertResponse) ==
    /\ ContentStep
    /\ \E fail \in BOOLEAN, stored \in ParentStored(parentCommentId) :
        LET id == FreshId(CommentIdSeq, commentRows)
            postAuthorId == postRows[postId].author_id
            parentAuthorId == IF parentCommentId = "null" THEN "none"
                              ELSE commentRows[parentCommentId].author_id
            toPostAuthor ==
                IF postAuthorId # "none" /\ postAuthorId # authorId
                THEN {CommentNotification(postAuthorId, "post", postId, id, isExpertResponse)}
                ELSE {}
            toParentAuthor ==
                IF parentCommentId # "null" /\ parentAuthorId # "none"
                   /\ parentAuthorId # authorId
                THEN {CommentNotification(parentAuthorId, "reply", postId, id, isExpertResponse)}
                ELSE {}
        IN IF fail \/ ~stored \/ id = "none" \/ postRows[postId].status # "active"
           THEN UNCHANGED <<postRows, commentRows, commentNotes>>
           ELSE /\ commentRows' =
                     [commentRows EXCEPT ![id] =
                        NewCommentRow(postId, authorId, parentCommentId, content,
                                      isExpertResponse)]
                /\ postRows' =
                     [postRows EXCEPT ![postId] =
                        [@ EXCEPT !.comment_count = @ + 1,
                                  !.expert_responded = IF isExpertResponse THEN TRUE ELSE @]]
                /\ commentNotes' = commentNotes \cup toPostAuthor \cup toParentAuthor
    /\ DbUnchanged
    /\ Counted

\* Controller updateComment: getCommentById, the owner test, then the model's
\* updateComment(commentId, {content}): UPDATE comments SET content = $1, updated_at = NOW()
UpdateComment(userId, commentId, content) ==
    /\ ContentStep
    /\ \E fail \in BOOLEAN :
        IF fail \/ commentRows[commentId].status = "none"
           \/ commentRows[commentId].author_id # userId
        THEN UNCHANGED commentRows
        ELSE commentRows' = [commentRows EXCEPT ![commentId] = [@ EXCEPT !.content = content]]
    /\ DbUnchanged
    /\ UNCHANGED <<postRows, commentNotes>>
    /\ Counted

\* Controller deleteComment: getCommentById, the owner test, then the model's
\* deleteComment: SELECT post_id; BEGIN; UPDATE comments SET status = 'deleted';
\* UPDATE posts SET comment_count = comment_count - 1 WHERE post_id = $1; COMMIT
DeleteComment(userId, commentId) ==
    /\ ContentStep
    /\ \E fail \in BOOLEAN :
        IF fail \/ commentRows[commentId].status = "none"
           \/ commentRows[commentId].author_id # userId
        THEN UNCHANGED <<postRows, commentRows>> /\ DbUnchanged
        ELSE LET postId == commentRows[commentId].post_id IN
             /\ commentRows' = [commentRows EXCEPT ![commentId] = DeletedCommentRow(@)]
             /\ postRows' = [postRows EXCEPT ![postId] = PostAfterCommentDeleted(@)]
             /\ SetDb(VotesAfterDelete(Committed, commentId))
    /\ UNCHANGED commentNotes
    /\ Counted

\* moderateComment(commentId, content): if moderateContent(content) does not approve,
\* updateComment(commentId, {status: "moderated"}); errors are logged and swallowed.
\* With config.moderation.enabled off every content is approved.
ModerateComment(commentId, content) ==
    /\ ContentStep
    /\ \E fail \in BOOLEAN, enabled \in BOOLEAN :
        IF fail \/ ~enabled \/ IsApproved(content) \/ commentRows[commentId].status = "none"
        THEN UNCHANGED commentRows
        ELSE commentRows' = [commentRows EXCEPT ![commentId] = [@ EXCEPT !.status = "moderated"]]
    /\ DbUnchanged
    /\ UNCHANGED <<postRows, commentNotes>>
    /\ Counted

NextContent ==
    \/ \E u \in Users, x \in Contents : CreatePost(u, x)
    \/ \E u \in Users, p \in PostIds, x \in Contents \cup {"undefined"},
          l \in UrgencyLevels \cup {"undefined"}, st \in Statuses \cup {"undefined"} :
          UpdatePost(u, p, x, l, st)
    \/ \E u \in Users, p \in PostIds : DeletePost(u, p)
    \/ \E p \in PostIds, l \in UrgencyLevels : UpdatePostSentiment(p, -1, l)
    \/ \E u \in Users, p \in PostIds, x \in Contents, parent \in CommentIds \cup {"null"},
          e \in BOOLEAN : CreateComment(u, p, x, parent, e)
    \/ \E u \in Users, c \in CommentIds, x \in Contents : UpdateComment(u, c, x)
    \/ \E u \in Users, c \in CommentIds : DeleteComment(u, c)
    \/ \E c \in CommentIds, x \in Contents : ModerateComment(c, x)

\* Databases the post and comment operations start from: p1 and its comment c1, one of
\* them with a vote.
ContentStart == {SerialVote(EmptyDb, s, "u3", "up") : s \in Subjects}
InitContent == \E db \in ContentStart : InitWith(db, "content")

\* Post and comment operations one at a time.
SpecContent == InitContent /\ [][NextContent]_vars

\* C36: a post's expert_responded is monotonic: it is TRUE once the transaction of a
\* createComment with isExpertResponse on the post has committed, and no later
\* operation (deleteComment, updateComment, updatePost, updatePostSentiment, deletePost,
\* moderation) sets it back to FALSE.
C36_ExpertRespondedMonotonic ==
    [][/\ \A p \in PostIds :
             postRows[p].expert_responded => postRows'[p].expert_responded
       /\ \A c \in CommentIds :
             /\ commentRows[c].status = "none"
             /\ commentRows'[c].status # "none"
             /\ commentRows'[c].is_expert_response
             => postRows'[commentRows'[c].post_id].expert_responded]_vars

\* An expert response was created on a post and then deleted; the post is still flagged.
C36_Witness ==
    \E c \in CommentIds :
        /\ commentRows[c].is_expert_response
        /\ commentRows[c].status = "deleted"
        /\ postRows[commentRows[c].post_id].expert_responded
        /\ postRows[commentRows[c].post_id].comment_count = 1

\* Number of comments of post p with status 'active'.
ActiveComments(p) ==
    Cardinality({c \in CommentIds : commentRows[c].post_id = p /\ commentRows[c].status = "active"})

\* C14: after any sequence of createComment, updateComment, deleteComment and
\* moderateComment calls, comment_count of every post is the number of its comments
\* with status 'active'.
C14_CommentCountIsActiveComments ==
    \A p \in PostIds :
        postRows[p].status # "none" => postRows[p].comment_count = ActiveComments(p)

\* A comment was deleted twice and its post counts one comment less than it has.
CommentDeletedTwice ==
    \E c \in CommentIds :
        /\ commentRows[c].status = "deleted"
        /\ postRows[commentRows[c].post_id].comment_count < 0

\* C15: every comment whose parent_comment_id is the id of a comment has that comment
\* on its own post: createComment never persists a reply to a comment of another post.
C15_ParentOnSamePost ==
    \A c \in CommentIds :
        (/\ commentRows[c].status # "none"
         /\ commentRows[c].parent_comment_id # "null"
         /\ commentRows[commentRows[c].parent_comment_id].status # "none") =>
            commentRows[commentRows[c].parent_comment_id].post_id = commentRows[c].post_id

\* C16: no operation removes a post row or a comment row: a row that exists before a
\* step exists after it.
C16_DeletionIsSoft ==
    [][/\ \A p \in PostIds : postRows[p].status # "none" => postRows'[p].status # "none"
       /\ \A c \in CommentIds : commentRows[c].status # "none" => commentRows'[c].status # "none"]_vars

\* C16 witness: a post and a comment have been deleted and their rows are there, with
\* status 'deleted'.
C16_Witness ==
    /\ \E p \in PostIds : postRows[p].status = "deleted"
    /\ \E c \in CommentIds : commentRows[c].status = "deleted"

\* C17: createPost, updatePost, deletePost, updatePostSentiment, createComment,
\* updateComment, deleteComment (and moderateComment) leave every vote row and every
\* upvotes / downvotes value as they were.
C17_ContentOpsLeaveVotes ==
    [][mode = "content" => UNCHANGED <<voteRows, upvotes, downvotes>>]_vars

\* C17 witness: a subject with a vote row and a counter at 1 has been deleted, and a
\* comment has been created.
C17_Witness ==
    /\ \E k \in VoteKeys :
          /\ voteRows[k] = 1 /\ upvotes[k[1]] = 1
          /\ \/ k[1] \in PostIds /\ postRows[k[1]].status = "deleted"
             \/ k[1] \in CommentIds /\ commentRows[k[1]].status = "deleted"
    /\ commentRows["c2"].status = "active"

(***************************************************************************)
(* Comment tree assembler: processCommentThreads                           *)
(* (src/src/controllers/comment.controller.ts), run on one flat list of    *)
(* comment rows.  The rows are rows of the comments table: their ids are   *)
(* distinct and, a comment being inserted after its parent, the parent     *)
(* references have no cycle.                                               *)
(***************************************************************************)

\* A row of getCommentsForPost: SELECT c.*, u.username as author_username.  Dates are
\* numbered instants; author_username is "undefined" for a row without a user name and
\* user_vote is "undefined" where the caller attached none.
FlatComment(id, parent) ==
    [comment_id |-> id,
     post_id |-> "p1",
     author_id |-> "u1",
     author_username |-> IF id = "c1" THEN "ann" ELSE "undefined",
     parent_comment_id |-> parent,
     content |-> "hello",
     upvotes |-> IF id = "c1" THEN 1 ELSE 0,
     downvotes |-> 0,
     is_expert_response |-> FALSE,
     is_anonymous |-> id = "c2",
     status |-> "active",
     created_at |-> IF id = "c1" THEN 1 ELSE IF id = "c2" THEN 2 ELSE 3,
     updated_at |-> 3,
     user_vote |-> IF id = "c1" THEN "up" ELSE "undefined"]

\* Date.prototype.toISOString: the instant as text.
ToISOString(date) == <<"iso", date>>

\* value || null
OrNull(value) == IF value \in {"undefined", "null", ""} THEN "null" ELSE value

\* Property names every JavaScript object inherits from Object.prototype; "constructor"
\* stands for all of them (toString, valueOf, hasOwnProperty, __proto__, ...).
PrototypeKeys == {"constructor"}

\* Values of parent_comment_id: NULL, the id of a comment, or a string that is no comment's
\* id.  createComment stores parentCommentId as the request gave it (any string passes the
\* route's validation).
ParentValues == CommentIds \cup {"null"} \cup PrototypeKeys

\* Whether following the parent references of pm from c ends within k steps.
RECURSIVE EndsWithin(_, _, _)
EndsWithin(pm, c, k) ==
    \/ pm[c] \notin CommentIds
    \/ k > 0 /\ EndsWithin(pm, pm[c], k - 1)

\* Parent references among the comments, without a cycle.
ParentMaps ==
    {pm \in [CommentIds -> ParentValues] :
        \A c \in CommentIds : EndsWithin(pm, c, Cardinality(CommentIds))}

\* The orders a list can have: up to MaxFlat distinct ids.
FlatOrders ==
    {order \in UNION {[1 .. k -> CommentIds] : k \in 0 .. MaxFlat} :
        \A i, j \in DOMAIN order : order[i] = order[j] => i = j}

\* The flat lists: rows with distinct ids, in any order, a row's parent in the list or not.
FlatLists ==
    {[i \in DOMAIN order |-> FlatComment(order[i], pm[order[i]])] :
        order \in FlatOrders, pm \in ParentMaps}

\* The CommentResponse the first pass builds from a row (replies: []).
CommentResponse(comment) ==
    [comment_id |-> comment.comment_id,
     post_id |-> comment.post_id,
     author_username |-> OrNull(comment.author_username),
     parent_comment_id |-> comment.parent_comment_id,
     content |-> comment.content,
     upvotes |-> comment.upvotes,
     downvotes |-> comment.downvotes,
     is_expert_response |-> comment.is_expert_response,
     is_anonymous |-> comment.is_anonymous,
     created_at |-> ToISOString(comment.created_at),
     updated_at |-> ToISOString(comment.updated_at),
     user_vote |-> OrNull(comment.user_vote),
     replies |-> <<>>]

\* First pass: commentMap[comment.comment_id] = commentResponse, a later row replacing an
\* earlier one of the same id.
CommentMap(comments) ==
    [id \in {comments[i].comment_id : i \in DOMAIN comments} |->
        CommentResponse(comments[CHOOSE i \in DOMAIN comments :
            /\ comments[i].comment_id = id
            /\ \A j \in DOMAIN comments : comments[j].comment_id = id => j <= i])]

\* array.unshift(x)
PushFront(array, x) == <<x>> \o array

\* Variant: the array keeps only the element pushed last.
PushReplacing(array, x) == <<x>>

\* array.push(x)
Push(array, x) == Append(array, x)

\* commentMap[key] of the object literal {}: an own property, else a property inherited
\* from Object.prototype, else undefined.
Lookup(commentMap, key) ==
    IF key \in DOMAIN commentMap THEN "own"
    ELSE IF key \in PrototypeKeys THEN "inherited"
    ELSE "undefined"

\* comment.parent_comment_id && commentMap[comment.parent_comment_id]
IsReply(comment, commentMap) ==
    /\ comment.parent_comment_id \notin {"null", ""}
    /\ Lookup(commentMap, comment.parent_comment_id) # "undefined"

\* Second pass, from row i on: each row's response is pushed onto its parent's replies
\* or onto rootComments.  links.replies[id] are the ids in commentMap[id].replies,
\* links.rootComments the ids in rootComments.  An inherited property has no replies
\* array: .replies.push on it throws a TypeError, which ends the run.
RECURSIVE BuildTree(_, _, _, _)
BuildTree(comments, commentMap, i, links) ==
    IF i > Len(comments) \/ links.thrown THEN links
    ELSE LET comment == comments[i]
             parent == comment.parent_comment_id
         IN  BuildTree(comments, commentMap, i + 1,
                 IF IsReply(comment, commentMap)
                 THEN IF Lookup(commentMap, parent) = "own"
                      THEN [links EXCEPT !.replies[parent] = Push(@, comment.comment_id)]
                      ELSE [links EXCEPT !.thrown = TRUE]
                 ELSE [links EXCEPT !.rootComments = Push(@, comment.comment_id)])

\* Before the second pass: every replies array and rootComments empty.
NoLinks ==
    [replies |-> [id \in CommentIds |-> <<>>], rootComments |-> <<>>, thrown |-> FALSE]

\* The response object of id with the objects its replies array refers to.
RECURSIVE ResponseTree(_, _, _)
ResponseTree(commentMap, links, id) ==
    [commentMap[id] EXCEPT !.replies =
        [j \in DOMAIN links.replies[id] |->
            ResponseTree(commentMap, links, links.replies[id][j])]]

\* processCommentThreads(comments): the returned rootComments, or the TypeError thrown.
ProcessCommentThreads(comments) ==
    LET commentMap == CommentMap(comments)
        links == BuildTree(comments, commentMap, 1, NoLinks)
    IN  IF links.thrown THEN [thrown |-> TRUE, rootComments |-> <<>>]
        ELSE [thrown |-> FALSE,
              rootComments |->
                  [j \in DOMAIN links.rootComments |->
                      ResponseTree(commentMap, links, links.rootComments[j])]]

\* The rows of the list had the run written its defaults back to them.
CommentsAfterNormalized(comments) ==
    [i \in DOMAIN comments |->
        [comments[i] EXCEPT !.author_username = OrNull(@), !.user_vote = OrNull(@)]]

\* The rows of the list after a run.  The run reads them and writes only the response
\* objects it created.
CommentsAfter(comments) == comments

\* One call of processCommentThreads on the list.
RunProcessCommentThreads ==
    /\ mode = "threads"
    /\ Len(threads) < MaxRuns
    /\ threads' = Append(threads, ProcessCommentThreads(flat))
    /\ flat' = CommentsAfter(flat)
    /\ UNCHANGED <<voteRows, upvotes, downvotes, notifications, req, hist, contentVars,
                   given, feedVars, answer, storeVars, mode>>

NextThreads == RunProcessCommentThreads

InitThreads == \E comments \in FlatLists : InitAll(EmptyDb, "threads", comments)

\* processCommentThreads run up to MaxRuns times on one flat list.
SpecThreads == InitThreads /\ [][NextThreads]_vars

\* The ids of the rows of a list.
IdsOf(comments) == {comments[i].comment_id : i \in DOMAIN comments}

\* Row i of the list has a parent_comment_id that is no row's id.
IsOrphan(comments, i) ==
    /\ comments[i].parent_comment_id # "null"
    /\ comments[i].parent_comment_id \notin IdsOf(comments)

\* The ids of a list of responses, in order.
IdsIn(responses) == [j \in DOMAIN responses |-> responses[j].comment_id]

\* The ids of the root nodes of a result.
RootIds(result) == {result.rootComments[j].comment_id : j \in DOMAIN result.rootComments}

\* C18: a comment of the flat list whose parent_comment_id is not the id of any comment of
\* the list is a root node of what processCommentThreads returns for the list; it is
\* not dropped.
C18_OrphanBecomesRoot ==
    \A k \in DOMAIN threads : \A i \in DOMAIN given :
        IsOrphan(given, i) => given[i].comment_id \in RootIds(threads[k])

\* What does hold: whenever the run returns, the orphans are among the roots.
OrphanIsRootWhenReturned ==
    \A k \in DOMAIN threads : \A i \in DOMAIN given :
        ~threads[k].thrown /\ IsOrphan(given, i) => given[i].comment_id \in RootIds(threads[k])

\* A run has returned for a list with an orphan after its first row.
OrphanReturned ==
    \E k \in DOMAIN threads : \E i \in DOMAIN given :
        ~threads[k].thrown /\ IsOrphan(given, i) /\ i > 1

\* The ids of the rows that have no parent in the list, in list order.
ExpectedRoots(comments) ==
    IdsIn(SelectSeq(comments,
        LAMBDA c : c.parent_comment_id = "null" \/ c.parent_comment_id \notin IdsOf(comments)))

\* The ids of the rows whose parent is id, in list order.
ExpectedReplies(comments, id) ==
    IdsIn(SelectSeq(comments, LAMBDA c : c.parent_comment_id = id))

\* The nodes of a list of trees, at every level.
RECURSIVE NodesOf(_)
NodesOf(responses) ==
    UNION {{responses[j]} \cup NodesOf(responses[j].replies) : j \in DOMAIN responses}

\* C19: in what processCommentThreads returns, the roots are in the order of their
\* positions in the flat list, and so are the replies of every node at every level.
C19_ArrivalOrderAtEveryLevel ==
    \A k \in DOMAIN threads :
        ~threads[k].thrown =>
            /\ IdsIn(threads[k].rootComments) = ExpectedRoots(given)
            /\ \A node \in NodesOf(threads[k].rootComments) :
                   IdsIn(node.replies) = ExpectedReplies(given, node.comment_id)

\* A run has returned a single root with two replies, for a list in which the replies
\* come before their parent and in the reverse of the order of their ids.
C19_Witness ==
    \E k \in DOMAIN threads :
        /\ ~threads[k].thrown
        /\ Len(threads[k].rootComments) = 1
        /\ IdsIn(given) = <<"c3", "c2", "c1">>
        /\ IdsIn(threads[k].rootComments[1].replies) = <<"c3", "c2">>

\* Two roots in a returned result.
TwoRootsReturned ==
    \E k \in DOMAIN threads : ~threads[k].thrown /\ Len(threads[k].rootComments) >= 2

RECURSIVE NodeIdSeq(_)
NodeIdSeq(responses) ==
    IF responses = <<>> THEN <<>>
    ELSE <<responses[1].comment_id>> \o NodeIdSeq(responses[1].replies)
         \o NodeIdSeq(Tail(responses))

FeedPostIdSeq == <<"p1", "p2", "p3">>
FeedPostIds == {FeedPostIdSeq[i] : i \in DOMAIN FeedPostIdSeq}

\* What a posts row of the feed's table can hold beside its id and creation time; tags
\* are the names joined to it through post_tags, stored in lower case by createPost.
FeedRowKinds ==
    {[status |-> "active", urgency_level |-> "low", expert_responded |-> FALSE,
      tags |-> {"a"}, upvotes |-> 0, comment_count |-> 1, is_anonymous |-> FALSE],
     [status |-> "active", urgency_level |-> "critical", expert_responded |-> TRUE,
      tags |-> {"a", "b"}, upvotes |-> 1, comment_count |-> 0, is_anonymous |-> TRUE],
     [status |-> "deleted", urgency_level |-> "critical", expert_responded |-> FALSE,
      tags |-> {"b"}, upvotes |-> 2, comment_count |-> 0, is_anonymous |-> FALSE]}

\* Row i of the table; posts are created in the order of FeedPostIdSeq.
FeedRow(i, kind) ==
    [post_id |-> FeedPostIdSeq[i],
     author_username |-> "ann",
     created_at |-> i,
     status |-> kind.status,
     urgency_level |-> kind.urgency_level,
     expert_responded |-> kind.expert_responded,
     tags |-> kind.tags,
     upvotes |-> kind.upvotes,
     comment_count |-> kind.comment_count,
     is_anonymous |-> kind.is_anonymous]

FeedTables ==
    {[i \in DOMAIN FeedPostIdSeq |-> FeedRow(i, kinds[i])] :
        kinds \in [DOMAIN FeedPostIdSeq -> FeedRowKinds]}

\* A sortBy / sortOrder text that is no field and no direction.
Injection == "'; DROP TABLE posts;"

\* The query strings of a request; "undefined" is a parameter the request does not
\* have.  The text of tags is written as its pieces and the commas between them, <<>>
\* for a request without tags.
TagsTexts == {<<>>, <<"A">>, <<"b", ",", "c">>}
UrgencyTexts == {"undefined", "critical"}
ExpertTexts == {"undefined", "true", "false"}
SortByTexts == {"undefined", "upvotes", "comment_count", Injection}
SortOrderTexts == {"undefined", "asc", "ASC", Injection}
PageTexts == {"undefined"} \cup {ToString(n) : n \in 2 .. MaxPage}
LimitTexts == {"undefined"} \cup {ToString(n) : n \in 1 .. MaxLimit}
FeedCallers == {"undefined", "u1"}

\* Number(text) of a decimal text.
NumberOf(text) == CHOOSE n \in 0 .. MaxPage + MaxLimit + 10 : ToString(n) = text

\* String.prototype.toLowerCase / toUpperCase on the texts above.
ToLowerCase(text) == IF text = "A" THEN "a" ELSE text

ToUpperCase(text) ==
    CASE text = "asc" -> "ASC"
      [] text = "desc" -> "DESC"
      [] text = "a" -> "A"
      [] text = Injection -> "'; DROP TABLE POSTS;"
      [] OTHER -> text

\* text.split(","): the pieces between the commas.
Split(text) == [i \in 1 .. (Len(text) + 1) \div 2 |-> text[2 * i - 1]]

\* value with a default: a destructuring default applies when the value is undefined.
OrDefault(value, default) == IF value = "undefined" THEN default ELSE value

FeedQueries ==
    [tags : TagsTexts, urgencyLevel : UrgencyTexts, withExpertResponse : ExpertTexts,
     sortBy : SortByTexts, sortOrder : SortOrderTexts, page : PageTexts,
     limit : LimitTexts, userId : FeedCallers]

\* getFeed: what the controller passes to getFeedPosts.  A boolean that may be undefined
\* is <<>> or <<b>>.
ParsedFeedQuery(q) ==
    [userId |-> q.userId,
     tags |-> IF q.tags = <<>> THEN <<>> ELSE Split(q.tags),
     urgencyLevel |-> q.urgencyLevel,
     withExpertResponse |->
         IF q.withExpertResponse = "true" THEN <<TRUE>>
         ELSE IF q.withExpertResponse = "false" THEN <<FALSE>>
         ELSE <<>>,
     sortBy |-> OrDefault(q.sortBy, "created_at"),
     sortOrder |-> OrDefault(q.sortOrder, "desc"),
     page |-> IF q.page = "undefined" THEN 1 ELSE NumberOf(q.page),
     limit |-> IF q.limit = "undefined" THEN 10 ELSE NumberOf(q.limit)]

\* getFeedPosts: the values after the destructuring defaults.
WithDefaults(parsed) ==
    [parsed EXCEPT
        !.sortBy = OrDefault(@, "created_at"),
        !.sortOrder = OrDefault(@, "desc"),
        !.withExpertResponse = IF @ = <<>> THEN <<FALSE>> ELSE @]

\* getFeedPosts: conditions and queryParams.  A condition is its SQL text and the
\* numbers of its $n placeholders.
StatusCondition == [sql |-> "p.status = 'active'", placeholders |-> <<>>]

TagCondition(d, paramIndex) ==
    [sql |-> "EXISTS (SELECT 1 FROM post_tags pt JOIN tags t ... AND t.name IN",
     placeholders |-> [idx \in DOMAIN d.tags |-> paramIndex + idx - 1]]

UrgencyCondition(paramIndex) ==
    [sql |-> "p.urgency_level =", placeholders |-> <<paramIndex>>]

ExpertCondition(paramIndex) ==
    [sql |-> "p.expert_responded =", placeholders |-> <<paramIndex>>]

\* if (urgencyLevel)
Truthy(text) == text \notin {"undefined", "null", ""}

\* The builder after "Add tag filter", "Add urgency level filter" and "Add expert
\* response filter"; d is the query after the defaults, so d.withExpertResponse is
\* never undefined when it is tested.
AddTagFilter(d, b) ==
    IF Len(d.tags) > 0
    THEN [conditions |-> Append(b.conditions, TagCondition(d, b.paramIndex)),
          queryParams |-> b.queryParams \o [i \in DOMAIN d.tags |-> ToLowerCase(d.tags[i])],
          paramIndex |-> b.paramIndex + Len(d.tags)]
    ELSE b

AddUrgencyFilter(d, b) ==
    IF Truthy(d.urgencyLevel)
    THEN [conditions |-> Append(b.conditions, UrgencyCondition(b.paramIndex)),
          queryParams |-> Append(b.queryParams, d.urgencyLevel),
          paramIndex |-> b.paramIndex + 1]
    ELSE b

AddExpertFilter(d, b) ==
    IF d.withExpertResponse # <<>>
    THEN [conditions |-> Append(b.conditions, ExpertCondition(b.paramIndex)),
          queryParams |-> Append(b.queryParams, d.withExpertResponse[1]),
          paramIndex |-> b.paramIndex + 1]
    ELSE b

FeedConditions(d) ==
    AddExpertFilter(d, AddUrgencyFilter(d, AddTagFilter(d,
        [conditions |-> <<StatusCondition>>, queryParams |-> <<>>, paramIndex |-> 1])))

\* Validate sort fields.
AllowedSortFields == {"created_at", "upvotes", "comment_count"}

ActualSortByUnchecked(sortBy) == sortBy

ActualSortBy(sortBy) == IF sortBy \in AllowedSortFields THEN sortBy ELSE "created_at"

ActualSortOrder(sortOrder) == IF ToUpperCase(sortOrder) = "ASC" THEN "ASC" ELSE "DESC"

\* Calculate pagination.
OffsetNextPage(page, limit) == page * limit

Offset(page, limit) == (page - 1) * limit

\* p.status = 'active'
IsActiveOrNot(row) == row.status \in {"active", "deleted"}

IsActive(row) == row.status = "active"

\* Whether a posts row satisfies a condition, the placeholders standing for queryParams.
Holds(row, condition, queryParams) ==
    CASE condition.sql = StatusCondition.sql -> IsActive(row)
      [] condition.sql = TagCondition([tags |-> <<>>], 1).sql ->
             \E i \in DOMAIN condition.placeholders :
                 queryParams[condition.placeholders[i]] \in row.tags
      [] condition.sql = UrgencyCondition(1).sql ->
             row.urgency_level = queryParams[condition.placeholders[1]]
      [] condition.sql = ExpertCondition(1).sql ->
             row.expert_responded = queryParams[condition.placeholders[1]]

\* WHERE conditions.join(" AND ")
Where(row, b) ==
    \A i \in DOMAIN b.conditions : Holds(row, b.conditions[i], b.queryParams)

\* The positions in the table of the rows the WHERE clause selects.
Selected(table, b) == {i \in DOMAIN table : Where(table[i], b)}

\* The column ORDER BY names; a text that is no column orders nothing.
SortKey(row, field) ==
    CASE field = "created_at" -> row.created_at
      [] field = "upvotes" -> row.upvotes
      [] field = "comment_count" -> row.comment_count
      [] OTHER -> 0

\* The orders the storage may return the selected rows in: any order that agrees with
\* ORDER BY p.field direction; rows with equal keys come in an order it chooses.
Ordered(table, selected, field, direction) ==
    {order \in [1 .. Cardinality(selected) -> selected] :
        /\ \A i, j \in DOMAIN order : order[i] = order[j] => i = j
        /\ \A i, j \in DOMAIN order :
               i < j => IF direction = "ASC"
                        THEN SortKey(table[order[i]], field) <= SortKey(table[order[j]], field)
                        ELSE SortKey(table[order[i]], field) >= SortKey(table[order[j]], field)}

\* LIMIT limit OFFSET offset
LimitOffset(order, limit, offset) ==
    [k \in 1 .. (IF Len(order) - offset < limit
                 THEN (IF Len(order) > offset THEN Len(order) - offset ELSE 0)
                 ELSE limit) |-> order[offset + k]]

\* The text of postsQuery, piece by piece, and its parameters.
PostsQuery(b, actualSortBy, actualSortOrder, limit, offset) ==
    [text |-> <<"SELECT p.*, u.username as author_username FROM posts p",
                "LEFT JOIN users u ON p.author_id = u.user_id", "WHERE">>
              \o [i \in DOMAIN b.conditions |-> b.conditions[i].sql]
              \o <<"ORDER BY", "p.", actualSortBy, actualSortOrder,
                   "LIMIT", "$", "OFFSET", "$">>,
     limitPlaceholder |-> b.paramIndex,
     offsetPlaceholder |-> b.paramIndex + 1,
     queryParams |-> b.queryParams \o <<limit, offset>>]

\* getUserVotesForPosts: the caller's votes on the posts of the page.
FeedVoteOf(userId, postId) == IF userId = "u1" /\ postId = "p1" THEN "up" ELSE "undefined"

\* A post of the response: the row with its tags, without the author's name when the
\* post is anonymous, and with the caller's vote when there is a caller.
FeedPost(row, userId) ==
    [post_id |-> row.post_id,
     author_username |-> IF row.is_anonymous THEN "null" ELSE row.author_username,
     created_at |-> row.created_at,
     status |-> row.status,
     urgency_level |-> row.urgency_level,
     expert_responded |-> row.expert_responded,
     tags |-> row.tags,
     upvotes |-> row.upvotes,
     comment_count |-> row.comment_count,
     is_anonymous |-> row.is_anonymous,
     user_vote |-> IF Truthy(userId) THEN OrNull(FeedVoteOf(userId, row.post_id))
                   ELSE "undefined"]

\* Math.ceil(total / limit) for limit > 0.
CeilDiv(total, limit) == (total + limit - 1) \div limit

\* GET /feed with query strings q: getFeed and the getFeedPosts call it makes.
GetFeed(q) ==
    /\ mode = "feed"
    /\ feedQuery = <<>>
    /\ feedQuery' = <<q>>
    /\ LET parsed == ParsedFeedQuery(q)
           d == WithDefaults(parsed)
           b == FeedConditions(d)
           actualSortBy == ActualSortBy(d.sortBy)
           actualSortOrder == ActualSortOrder(d.sortOrder)
           postsQuery == PostsQuery(b, actualSortBy, actualSortOrder, d.limit,
                                    Offset(d.page, d.limit))
           selected == Selected(feedPosts, b)
           total == Cardinality(selected)
       IN  /\ feedSql' = <<postsQuery>>
           /\ \E order \in Ordered(feedPosts, selected, actualSortBy, actualSortOrder) :
                  LET rows == LimitOffset(order,
                                  postsQuery.queryParams[postsQuery.limitPlaceholder],
                                  postsQuery.queryParams[postsQuery.offsetPlaceholder])
                  IN  feedResponse' =
                          <<[status |-> 200,
                             posts |-> [k \in DOMAIN rows |->
                                           FeedPost(feedPosts[rows[k]], parsed.userId)],
                             pagination |-> [page |-> parsed.page,
                                             limit |-> parsed.limit,
                                             total |-> total,
                                             totalPages |-> CeilDiv(total, parsed.limit)]]>>
    /\ UNCHANGED <<voteRows, upvotes, downvotes, notifications, req, hist, contentVars,
                   threadVars, feedPosts, answer, storeVars, mode>>

\* One request per posts table.
NextFeed == feedQuery = <<>> /\ \E q \in FeedQueries : GetFeed(q)

InitFeed ==
    /\ InitStore(EmptyDb, "feed")
    /\ InitList(<<>>)
    /\ feedPosts \in FeedTables
    /\ feedQuery = <<>>
    /\ feedSql = <<>>
    /\ feedResponse = <<>>

\* One GET /feed on each posts table.
SpecFeed == InitFeed /\ [][NextFeed]_vars

\* The posts of the table a request with query strings q asks for: the active posts that
\* pass each filter q has.  A requested tag counts in lower case.
RequestedTags(q) == {ToLowerCase(Split(q.tags)[i]) : i \in DOMAIN Split(q.tags)}

PassesPresentFilters(row, q) ==
    /\ row.status = "active"
    /\ q.tags # <<>> => row.tags \cap RequestedTags(q) # {}
    /\ q.urgencyLevel # "undefined" => row.urgency_level = q.urgencyLevel
    /\ q.withExpertResponse = "true" => row.expert_responded
    /\ q.withExpertResponse = "false" => ~row.expert_responded

Requested(q) == {i \in DOMAIN feedPosts : PassesPresentFilters(feedPosts[i], q)}

\* The ids of the posts of the response, in order and as a set.
ReturnedSeq == [k \in DOMAIN feedResponse[1].posts |-> feedResponse[1].posts[k].post_id]
Returned == {ReturnedSeq[k] : k \in DOMAIN ReturnedSeq}

\* The request names no page and no limit: the first 10 posts, which is all of them.
WholeFeed(q) == q.page = "undefined" /\ q.limit = "undefined"

\* C21: a filter the request does not have restricts nothing: the feed's total is the
\* number of active posts that pass the filters the request has, and a request without
\* page and limit returns all of them; so a request without withExpertResponse returns
\* posts with expert_responded true and false alike.
C21_AbsentFilterNoConstraint ==
    feedResponse # <<>> =>
        LET q == feedQuery[1]
        IN  /\ feedResponse[1].pagination.total = Cardinality(Requested(q))
            /\ WholeFeed(q) => Returned = {FeedPostIdSeq[i] : i \in Requested(q)}

\* What does hold: a request that has withExpertResponse gets the posts it asks for.
FeedWithExpertGiven ==
    feedResponse # <<>> /\ feedQuery[1].withExpertResponse # "undefined" =>
        LET q == feedQuery[1]
        IN  /\ feedResponse[1].pagination.total = Cardinality(Requested(q))
            /\ WholeFeed(q) => Returned = {FeedPostIdSeq[i] : i \in Requested(q)}

\* A request without withExpertResponse is always answered without the posts an expert
\* responded to.
FeedWithoutExpertHidesExpertPosts ==
    feedResponse # <<>> /\ feedQuery[1].withExpertResponse = "undefined" =>
        \A k \in DOMAIN feedResponse[1].posts : ~feedResponse[1].posts[k].expert_responded

\* C22: every post of a feed response has status 'active', the total counts no post that
\* is not active, and with urgencyLevel in the request every post of the response has
\* that urgency_level and the total counts none of another.
C22_OnlyActivePosts ==
    feedResponse # <<>> =>
        LET q == feedQuery[1]
            r == feedResponse[1]
            counted == {i \in DOMAIN feedPosts :
                          /\ feedPosts[i].status = "active"
                          /\ q.urgencyLevel # "undefined" =>
                                 feedPosts[i].urgency_level = q.urgencyLevel}
        IN  /\ \A k \in DOMAIN r.posts : r.posts[k].status = "active"
            /\ r.pagination.total <= Cardinality(counted)
            /\ q.urgencyLevel # "undefined" =>
                   \A k \in DOMAIN r.posts : r.posts[k].urgency_level = q.urgencyLevel

\* A response with a post, for a request with urgencyLevel on a table that holds a
\* deleted post of that urgency_level, sorted by upvotes.
C22_Witness ==
    /\ feedResponse # <<>>
    /\ feedResponse[1].posts # <<>>
    /\ feedQuery[1].urgencyLevel = "critical"
    /\ feedQuery[1].sortBy = "upvotes"
    /\ \E i \in DOMAIN feedPosts :
           feedPosts[i].status = "deleted" /\ feedPosts[i].urgency_level = "critical"

\* The field and the direction in ORDER BY of the page query.
OrderByField == feedSql[1].text[Len(feedSql[1].text) - 5]
OrderByDirection == feedSql[1].text[Len(feedSql[1].text) - 4]

\* C23: whatever sortBy and sortOrder the client sends, ORDER BY names a field of
\* {created_at, upvotes, comment_count} and ASC or DESC; a sortBy outside the list gives
\* created_at, a sortOrder that is not asc gives DESC, no piece of the query text is the
\* text the client sent, and the posts come in the order ORDER BY then asks for.
C23_SortAllowList ==
    feedSql # <<>> =>
        LET q == feedQuery[1]
            posts == feedResponse[1].posts
        IN  /\ OrderByField \in {"created_at", "upvotes", "comment_count"}
            /\ OrderByDirection \in {"ASC", "DESC"}
            /\ q.sortBy \in {"upvotes", "comment_count"} => OrderByField = q.sortBy
            /\ q.sortBy \notin {"created_at", "upvotes", "comment_count"} =>
                   OrderByField = "created_at"
            /\ q.sortOrder = "asc" => OrderByDirection = "ASC"
            /\ q.sortOrder \notin {"asc", "ASC"} => OrderByDirection = "DESC"
            /\ \A k \in DOMAIN feedSql[1].text :
                   feedSql[1].text[k] \notin {Injection, ToUpperCase(Injection)}
            /\ q.sortBy = Injection =>
                   \A j, k \in DOMAIN posts :
                       j < k => IF OrderByDirection = "ASC"
                                THEN posts[j].created_at < posts[k].created_at
                                ELSE posts[j].created_at > posts[k].created_at

\* A response with two posts for a request whose sortBy and sortOrder are both the
\* injection text.
C23_Witness ==
    /\ feedResponse # <<>>
    /\ feedQuery[1].sortBy = Injection
    /\ feedQuery[1].sortOrder = Injection
    /\ Len(feedResponse[1].posts) >= 2

\* C24: with tags in the request, the posts of the feed are exactly the active posts that
\* pass the other filters the request has and have at least one tag equal to a
\* requested tag in lower case: that many are counted, and a request without page and
\* limit returns them all.
C24_AnyRequestedTag ==
    feedResponse # <<>> /\ feedQuery[1].tags # <<>> =>
        LET q == feedQuery[1]
        IN  /\ WholeFeed(q) => Returned = {FeedPostIdSeq[i] : i \in Requested(q)}
            /\ feedResponse[1].pagination.total = Cardinality(Requested(q))

\* The posts the query of a request selects: those the request asks for, less the posts
\* an expert responded to when the request has no withExpertResponse.
Matching(q) ==
    {i \in Requested(q) :
        q.withExpertResponse = "undefined" => ~feedPosts[i].expert_responded}

\* What does hold for tags: among the posts the query selects, a post is returned exactly
\* when one of its tags is a requested tag in lower case.
FeedTagsAnyOfLowercased ==
    feedResponse # <<>> /\ feedQuery[1].tags # <<>> /\ WholeFeed(feedQuery[1]) =>
        /\ Returned = {FeedPostIdSeq[i] : i \in Matching(feedQuery[1])}
        /\ \A k \in DOMAIN feedResponse[1].posts :
               feedResponse[1].posts[k].tags \cap RequestedTags(feedQuery[1]) # {}

ApiError(message, statusCode) == [api |-> TRUE, message |-> message, statusCode |-> statusCode]
PlainError(message) == [api |-> FALSE, message |-> message, statusCode |-> 0]
StorageError == PlainError("storage")

\* errorHandler: the status code of an ApiError, 500 for every other error.
ErrorStatus(err) == IF err.api THEN err.statusCode ELSE 500

\* The response to a request that ended in next(error).
ErrorAnswer(handler, caller, subject, err) ==
    [handler |-> handler, caller |-> caller, subject |-> subject,
     status |-> ErrorStatus(err), message |-> err.message, failedAt |-> "none",
     carried |-> <<>>, body |-> <<>>]

\* The response res.status(status).json(...).
OkAnswer(handler, caller, subject, status) ==
    [handler |-> handler, caller |-> caller, subject |-> subject,
     status |-> status, message |-> "success", failedAt |-> "none",
     carried |-> <<>>, body |-> <<>>]

\* u.username of LEFT JOIN users u ON author_id = u.user_id
UsernameOf(userId) ==
    CASE userId = "u1" -> "ann" [] userId = "u2" -> "bob" [] userId = "u3" -> "cy"
      [] OTHER -> "null"

\* Variant: the controllers leave author_username as the model returned it.
AnonymizedNever(row) ==
    [is_anonymous |-> row.is_anonymous, author_username |-> UsernameOf(row.author_id)]

\* if (post.is_anonymous) { post.author_username = null; }, the same for a comment:
\* what the response shows of the row.
Anonymized(row) ==
    [is_anonymous |-> row.is_anonymous,
     author_username |-> IF row.is_anonymous THEN "null" ELSE UsernameOf(row.author_id)]

\* The response with the post or comment it carries in data.
Carrying(response, row) == [response EXCEPT !.carried = <<Anonymized(row)>>]

\* getPostById / getCommentById: the row, or the Error thrown when there is none.
GetPostByIdError == PlainError("Post not found")
GetCommentByIdError == PlainError("Comment not found")

PostMissing(postId) == postRows[postId].status = "none"
CommentMissing(commentId) == commentRows[commentId].status = "none"

\* The posts tables a request meets: p1 of u1 in each status, anonymous or not, with as many counted
\* comments as the comments table holds active ones; p2 does not exist.
RequestPosts(comments) ==
    {[p \in PostIds |->
        IF p = "p1"
        THEN [NewPostRow(AuthorOf("p1"), "hello") EXCEPT
                 !.status = st,
                 !.is_anonymous = anonymous,
                 !.comment_count =
                     Cardinality({c \in CommentIds : comments[c].status = "active"})]
        ELSE NoPost] : st \in Statuses, anonymous \in BOOLEAN}

\* The comments tables a request meets, all on p1, anonymous unless said otherwise: c1
\* of u2 alone, active or deleted, anonymous or not; c1
\* and a comment c2 of the post's author; a chain c1 <- c2 <- c3; c1 with a deleted reply
\* c2 and a second top-level comment c3.
RequestComments ==
    {[SeedComments EXCEPT !["c1"].status = st, !["c1"].is_anonymous = anonymous] :
        st \in {"active", "deleted"}, anonymous \in BOOLEAN}
    \cup
    {[SeedComments EXCEPT !["c2"] = NewCommentRow("p1", "u1", "null", "hello", FALSE)],
     [SeedComments EXCEPT
         !["c2"] = NewCommentRow("p1", "u1", "c1", "hello", FALSE),
         !["c3"] = [NewCommentRow("p1", "u3", "c2", "hello", FALSE) EXCEPT
                       !.is_anonymous = FALSE]],
     [SeedComments EXCEPT
         !["c2"] = [NewCommentRow("p1", "u1", "c1", "hello", FALSE) EXCEPT
                       !.status = "deleted"],
         !["c3"] = NewCommentRow("p1", "u3", "null", "hello", FALSE)]}

\* Callers: a signed-in user, or nobody ("undefined": req.user is not set).
Callers == Users \cup {"undefined"}

\* One request is handled.
RequestBegin ==
    /\ mode = "requests"
    /\ answer = <<>>
    /\ UNCHANGED <<req, hist, contentOps, threadVars, feedVars, clients, mode>>

\* A request that writes neither tags nor votes.
RequestStep ==
    /\ RequestBegin
    /\ UNCHANGED <<tagRows, strayVotes>>

\* Controller getPost: getPostById, the test post.status !== "active",
\* getUserVotesForPosts for a signed-in caller.
GetPost(caller, postId) ==
    /\ RequestStep
    /\ \E fail \in BOOLEAN :
        answer' =
          <<IF fail THEN ErrorAnswer("getPost", caller, postId, StorageError)
            ELSE IF PostMissing(postId)
            THEN ErrorAnswer("getPost", caller, postId, GetPostByIdError)
            ELSE IF postRows[postId].status # "active"
            THEN ErrorAnswer("getPost", caller, postId,
                             ApiError("Post not found or has been removed", 404))
            ELSE Carrying(OkAnswer("getPost", caller, postId, 200), postRows[postId])>>
    /\ DbUnchanged
    /\ UNCHANGED <<postRows, commentRows, commentNotes>>

\* Controller getComment: getCommentById, the test comment.status !== "active",
\* getUserVotesForComments for a signed-in caller.
GetComment(caller, commentId) ==
    /\ RequestStep
    /\ \E fail \in BOOLEAN :
        answer' =
          <<IF fail THEN ErrorAnswer("getComment", caller, commentId, StorageError)
            ELSE IF CommentMissing(commentId)
            THEN ErrorAnswer("getComment", caller, commentId, GetCommentByIdError)
            ELSE IF commentRows[commentId].status # "active"
            THEN ErrorAnswer("getComment", caller, commentId,
                             ApiError("Comment not found or has been removed", 404))
            ELSE Carrying(OkAnswer("getComment", caller, commentId, 200),
                          commentRows[commentId])>>
    /\ DbUnchanged
    /\ UNCHANGED <<postRows, commentRows, commentNotes>>

\* Comments get their ids in the order of CommentIdSeq, so created_at grows with it.
CreatedAt(commentId) == CHOOSE i \in DOMAIN CommentIdSeq : CommentIdSeq[i] = commentId

\* The orders the storage may compare comment ids in: ids are generated, their order
\* says nothing about the order of creation.
IdOrders ==
    {rank \in [CommentIds -> 1 .. Cardinality(CommentIds)] :
        \A a, b \in CommentIds : rank[a] = rank[b] => a = b}

\* ORDER BY c.parent_comment_id NULLS FIRST, c.created_at ASC: comment a comes before b.
SortsBefore(a, b, rank) ==
    LET pa == commentRows[a].parent_comment_id
        pb == commentRows[b].parent_comment_id
    IN  IF pa = "null" /\ pb = "null" THEN CreatedAt(a) < CreatedAt(b)
        ELSE IF pa = "null" THEN TRUE
        ELSE IF pb = "null" THEN FALSE
        ELSE IF pa # pb THEN rank[pa] < rank[pb]
        ELSE CreatedAt(a) < CreatedAt(b)

\* WHERE c.post_id = $1 AND c.status = 'active'
ActiveCommentsOf(postId) ==
    {c \in CommentIds : commentRows[c].post_id = postId /\ commentRows[c].status = "active"}

\* getCommentsForPost(postId, page, limit): the count and the page of the ordered rows.
GetCommentsForPost(postId, page, limit, rank) ==
    LET found == ActiveCommentsOf(postId)
        order == CHOOSE seq \in [1 .. Cardinality(found) -> found] :
                     /\ \A i, j \in DOMAIN seq : seq[i] = seq[j] => i = j
                     /\ \A i, j \in DOMAIN seq : i < j => SortsBefore(seq[i], seq[j], rank)
    IN  [comments |-> LimitOffset(order, limit, (page - 1) * limit),
         total |-> Cardinality(found)]

\* getUserVotesForComments: the caller's vote on a comment.
CommentVoteOf(caller, commentId) ==
    IF caller \in Users /\ commentId \in Subjects
    THEN (IF voteRows[<<commentId, caller, "up">>] > 0 THEN "up"
          ELSE IF voteRows[<<commentId, caller, "down">>] > 0 THEN "down"
          ELSE "undefined")
    ELSE "undefined"

\* A row of the page as getPostComments hands it to processCommentThreads.
ListedComment(commentId, caller) ==
    [FlatComment(commentId, commentRows[commentId].parent_comment_id) EXCEPT
        !.post_id = commentRows[commentId].post_id,
        !.author_id = commentRows[commentId].author_id,
        !.is_anonymous = commentRows[commentId].is_anonymous,
        !.author_username = Anonymized(commentRows[commentId]).author_username,
        !.content = commentRows[commentId].content,
        !.upvotes = IF commentId \in Subjects THEN upvotes[commentId] ELSE 0,
        !.downvotes = IF commentId \in Subjects THEN downvotes[commentId] ELSE 0,
        !.is_expert_response = commentRows[commentId].is_expert_response,
        !.created_at = CreatedAt(commentId),
        !.user_vote = IF caller = "undefined" THEN "undefined"
                      ELSE OrNull(CommentVoteOf(caller, commentId))]

\* Controller getPostComments: getPostById, the test post.status !== "active",
\* getCommentsForPost, anonymity, the caller's votes, processCommentThreads.
GetPostComments(caller, postId, page, limit) ==
    /\ RequestStep
    /\ \E fail \in BOOLEAN, rank \in IdOrders :
        LET listed == GetCommentsForPost(postId, page, limit, rank)
            rows == [k \in DOMAIN listed.comments |->
                        ListedComment(listed.comments[k], caller)]
            threaded == ProcessCommentThreads(rows)
        IN  answer' =
              <<IF fail THEN ErrorAnswer("getPostComments", caller, postId, StorageError)
                ELSE IF PostMissing(postId)
                THEN ErrorAnswer("getPostComments", caller, postId, GetPostByIdError)
                ELSE IF postRows[postId].status # "active"
                THEN ErrorAnswer("getPostComments", caller, postId,
                                 ApiError("Post not found or has been removed", 404))
                ELSE IF threaded.thrown
                THEN ErrorAnswer("getPostComments", caller, postId, PlainError("TypeError"))
                ELSE [flat |-> listed.comments,
                      comments |-> threaded.rootComments,
                      pagination |-> [page |-> page, limit |-> limit,
                                      total |-> listed.total,
                                      totalPages |-> CeilDiv(listed.total, limit)]]
                     @@ OkAnswer("getPostComments", caller, postId, 200)>>
    /\ DbUnchanged
    /\ UNCHANGED <<postRows, commentRows, commentNotes>>

\* if (!req.user)
NotAuthenticated(caller) == caller = "undefined"

\* Variant: the controllers do not compare the author with the caller.
IsNotOwnerNever(row, caller) == FALSE

\* post.author_id !== req.user.user_id / comment.author_id !== req.user.user_id
IsNotOwner(row, caller) == row.author_id # caller

\* Where a storage statement of a request can fail: in the controller's first read, in
\* the model function's statements, or in the read after them.
FailPoints == {"none", "before", "within", "after"}

\* What the controller does before it calls the model function of an update or a
\* delete: the error it throws, or <<>> when the call goes ahead.
OwnerCheck(caller, row, missingError, failAt, what) ==
    IF NotAuthenticated(caller) THEN <<ApiError("Not authenticated", 401)>>
    ELSE IF failAt = "before" THEN <<StorageError>>
    ELSE IF row.status = "none" THEN <<missingError>>
    ELSE IF IsNotOwner(row, caller) THEN <<ApiError(what, 403)>>
    ELSE <<>>

\* The model's updatePost: UPDATE posts SET [content], [urgency_level], [status];
\* [DELETE FROM post_tags; INSERT INTO tags / post_tags per tag, in lower case]
UpdatedPostRow(row, content, urgencyLevel, status, tags) ==
    [row EXCEPT !.content = IF content = "undefined" THEN @ ELSE content,
                !.urgency_level = IF urgencyLevel = "undefined" THEN @ ELSE urgencyLevel,
                !.status = IF status = "undefined" THEN @ ELSE status,
                !.tags = IF tags = <<>> THEN @ ELSE {ToLowerCase(t) : t \in tags[1]}]

\* Controller updatePost (PUT /posts/:postId) with its model call.
RequestUpdatePost(caller, postId, content, urgencyLevel, status, tags) ==
    /\ RequestBegin
    /\ UNCHANGED strayVotes
    /\ \E failAt \in FailPoints :
        LET err == OwnerCheck(caller, postRows[postId], GetPostByIdError, failAt,
                              "You are not authorized to update this post")
        IN  IF err # <<>>
            THEN /\ answer' = <<ErrorAnswer("updatePost", caller, postId, err[1])>>
                 /\ UNCHANGED <<postRows, tagRows>>
            ELSE IF failAt = "within"
            THEN /\ answer' = <<ErrorAnswer("updatePost", caller, postId, StorageError)>>
                 /\ UNCHANGED <<postRows, tagRows>>
            ELSE /\ postRows' = [postRows EXCEPT ![postId] =
                                    UpdatedPostRow(@, content, urgencyLevel, status, tags)]
                 /\ tagRows' = tagRows \cup UpdatedPostRow(postRows[postId], content,
                                                          urgencyLevel, status, tags).tags
                 /\ answer' = <<IF failAt = "after"
                                THEN ErrorAnswer("updatePost", caller, postId, StorageError)
                                ELSE Carrying(OkAnswer("updatePost", caller, postId, 200),
                                              postRows[postId])>>
    /\ DbUnchanged
    /\ UNCHANGED <<commentRows, commentNotes>>

\* Controller deletePost (DELETE /posts/:postId) with its model call.
RequestDeletePost(caller, postId) ==
    /\ RequestStep
    /\ \E failAt \in FailPoints \ {"after"} :
        LET err == OwnerCheck(caller, postRows[postId], GetPostByIdError, failAt,
                              "You are not authorized to delete this post")
        IN  IF err # <<>>
            THEN /\ answer' = <<ErrorAnswer("deletePost", caller, postId, err[1])>>
                 /\ UNCHANGED postRows
            ELSE IF failAt = "within"
            THEN /\ answer' = <<ErrorAnswer("deletePost", caller, postId, StorageError)>>
                 /\ UNCHANGED postRows
            ELSE /\ postRows' = [postRows EXCEPT ![postId] = DeletedPostRow(@)]
                 /\ answer' = <<OkAnswer("deletePost", caller, postId, 200)>>
    /\ DbUnchanged
    /\ UNCHANGED <<commentRows, commentNotes>>

\* Controller updateComment (PUT /comments/:commentId) with its model call.
RequestUpdateComment(caller, commentId, content) ==
    /\ RequestStep
    /\ \E failAt \in FailPoints :
        LET err == OwnerCheck(caller, commentRows[commentId], GetCommentByIdError, failAt,
                              "You are not authorized to update this comment")
        IN  IF err # <<>>
            THEN /\ answer' = <<ErrorAnswer("updateComment", caller, commentId, err[1])>>
                 /\ UNCHANGED commentRows
            ELSE IF failAt = "within"
            THEN /\ answer' = <<ErrorAnswer("updateComment", caller, commentId, StorageError)>>
                 /\ UNCHANGED commentRows
            ELSE /\ commentRows' = [commentRows EXCEPT ![commentId] =
                                       [@ EXCEPT !.content = content]]
                 /\ answer' = <<IF failAt = "after"
                                THEN ErrorAnswer("updateComment", caller, commentId,
                                                 StorageError)
                                ELSE Carrying(OkAnswer("updateComment", caller, commentId,
                                                       200),
                                              commentRows[commentId])>>
    /\ DbUnchanged
    /\ UNCHANGED <<postRows, commentNotes>>

\* Controller deleteComment (DELETE /comments/:commentId) with its model call.
RequestDeleteComment(caller, commentId) ==
    /\ RequestStep
    /\ \E failAt \in FailPoints \ {"after"} :
        LET err == OwnerCheck(caller, commentRows[commentId], GetCommentByIdError, failAt,
                              "You are not authorized to delete this comment")
            postId == commentRows[commentId].post_id
        IN  IF err # <<>>
            THEN /\ answer' = <<ErrorAnswer("deleteComment", caller, commentId, err[1])>>
                 /\ UNCHANGED <<postRows, commentRows>>
            ELSE IF failAt = "within"
            THEN /\ answer' = <<ErrorAnswer("deleteComment", caller, commentId, StorageError)>>
                 /\ UNCHANGED <<postRows, commentRows>>
            ELSE /\ commentRows' = [commentRows EXCEPT ![commentId] = DeletedCommentRow(@)]
                 /\ postRows' = [postRows EXCEPT ![postId] = PostAfterCommentDeleted(@)]
                 /\ answer' = <<OkAnswer("deleteComment", caller, commentId, 200)>>
    /\ DbUnchanged
    /\ UNCHANGED commentNotes

\* Variant: the author is notified also about their own comment.
ShouldNotifyAuthorAlso(recipientId, authorId) == recipientId # "none"

\* postAuthorId && postAuthorId !== authorId /
\* parentCommentAuthorId && parentCommentAuthorId !== authorId
ShouldNotifyAuthor(recipientId, authorId) ==
    /\ recipientId # "none"
    /\ recipientId # authorId

\* The tables createComment's transaction works on.
ContentTables ==
    [postRows |-> postRows, commentRows |-> commentRows, commentNotes |-> commentNotes]

\* The statements createComment(c) sends on its connection, in order.
CommentStatements(c) ==
    LET postAuthorId == postRows[c.postId].author_id
        parentAuthorId == IF c.parentCommentId \in CommentIds
                          THEN commentRows[c.parentCommentId].author_id ELSE "none"
    IN  <<"BEGIN", "INSERT_COMMENT", "UPDATE_COUNT">>
        \o (IF c.isExpertResponse THEN <<"UPDATE_EXPERT">> ELSE <<>>)
        \o <<"SELECT_POST_AUTHOR">>
        \o (IF ShouldNotifyAuthor(postAuthorId, c.authorId)
            THEN <<"INSERT_POST_NOTIFICATION">> ELSE <<>>)
        \o (IF c.parentCommentId # "null"
            THEN <<"SELECT_PARENT_AUTHOR">>
                 \o (IF ShouldNotifyAuthor(parentAuthorId, c.authorId)
                     THEN <<"INSERT_PARENT_NOTIFICATION">> ELSE <<>>)
            ELSE <<>>)
        \o <<"COMMIT">>

\* The tables as the transaction sees them after one more statement.
AfterStatement(statement, w, c) ==
    CASE statement = "INSERT_COMMENT" ->
             [w EXCEPT !.commentRows[c.id] =
                 [NewCommentRow(c.postId, c.authorId, c.parentCommentId, c.content,
                                c.isExpertResponse) EXCEPT !.is_anonymous = c.isAnonymous]]
      [] statement = "UPDATE_COUNT" ->
             [w EXCEPT !.postRows[c.postId].comment_count = @ + 1]
      [] statement = "UPDATE_EXPERT" ->
             [w EXCEPT !.postRows[c.postId].expert_responded = TRUE]
      [] statement = "INSERT_POST_NOTIFICATION" ->
             [w EXCEPT !.commentNotes = @ \cup
                 {CommentNotification(w.postRows[c.postId].author_id, "post", c.postId,
                                      c.id, c.isExpertResponse)}]
      [] statement = "INSERT_PARENT_NOTIFICATION" ->
             [w EXCEPT !.commentNotes = @ \cup
                 {CommentNotification(w.commentRows[c.parentCommentId].author_id, "reply",
                                      c.postId, c.id, c.isExpertResponse)}]
      [] OTHER -> w

\* The tables as the transaction sees them after its first k statements.
RECURSIVE AfterStatements(_, _, _, _)
AfterStatements(statements, k, w, c) ==
    IF k = 0 THEN w
    ELSE AfterStatement(statements[k], AfterStatements(statements, k - 1, w, c), c)

\* Variant: the statements sent before the failing one stay written.
RolledBackKeepsWrites(before, working) == working

\* catch: ROLLBACK: the tables are as before BEGIN.
RolledBack(before, working) == before

SetContentTables(w) ==
    /\ postRows' = w.postRows
    /\ commentRows' = w.commentRows
    /\ commentNotes' = w.commentNotes

\* Controller createComment (POST /comments/post/:postId): getPostById, the test
\* post.status !== "active", then the model's createComment: its transaction, statement
\* n of which may fail, and getCommentById after COMMIT.  The request cannot name the
\* id the new comment is about to get.
RequestCreateComment(caller, postId, content, parentCommentId, isAnonymous, isExpertResponse) ==
    /\ RequestStep
    /\ FreshId(CommentIdSeq, commentRows) \notin {"none", parentCommentId}
    /\ LET c == [id |-> FreshId(CommentIdSeq, commentRows), postId |-> postId,
                 authorId |-> caller, content |-> content,
                 parentCommentId |-> parentCommentId, isAnonymous |-> isAnonymous,
                 isExpertResponse |-> isExpertResponse]
           statements == CommentStatements(c)
       IN  \E failAt \in FailPoints, n \in DOMAIN statements,
              stored \in ParentStored(parentCommentId) :
             IF NotAuthenticated(caller)
             THEN /\ answer' = <<ErrorAnswer("createComment", caller, postId,
                                             ApiError("Not authenticated", 401))>>
                  /\ UNCHANGED <<postRows, commentRows, commentNotes>>
             ELSE IF failAt = "before"
             THEN /\ answer' = <<ErrorAnswer("createComment", caller, postId, StorageError)>>
                  /\ UNCHANGED <<postRows, commentRows, commentNotes>>
             ELSE IF PostMissing(postId)
             THEN /\ answer' = <<ErrorAnswer("createComment", caller, postId,
                                             GetPostByIdError)>>
                  /\ UNCHANGED <<postRows, commentRows, commentNotes>>
             ELSE IF postRows[postId].status # "active"
             THEN /\ answer' = <<ErrorAnswer("createComment", caller, postId,
                                     ApiError("Post not found or has been removed", 404))>>
                  /\ UNCHANGED <<postRows, commentRows, commentNotes>>
             ELSE IF failAt = "within" \/ ~stored
             THEN LET failed == IF ~stored THEN 2 ELSE n
                  IN  /\ answer' =
                            <<[ErrorAnswer("createComment", caller, postId, StorageError)
                                  EXCEPT !.failedAt = statements[failed]]>>
                      /\ SetContentTables(
                             RolledBack(ContentTables,
                                        AfterStatements(statements, failed - 1,
                                                        ContentTables, c)))
             ELSE /\ SetContentTables(
                         AfterStatements(statements, Len(statements), ContentTables, c))
                  /\ answer' = <<IF failAt = "after"
                                 THEN [ErrorAnswer("createComment", caller, postId,
                                                   StorageError)
                                          EXCEPT !.failedAt = "getCommentById"]
                                 ELSE Carrying(OkAnswer("createComment", caller, c.id, 201),
                                               AfterStatement("INSERT_COMMENT",
                                                   ContentTables, c).commentRows[c.id])>>
    /\ DbUnchanged

\* Controller voteOnPost / voteOnComment with a valid voteType and its model call, which
\* runs alone.  The model function reads no posts / comments row before it writes: for
\* a subject that has no row it finds no vote, sends INSERT INTO post_votes /
\* comment_votes, updates the counters of no row, finds no author, commits, and fails in
\* getPostById / getCommentById after COMMIT.  The votes tables' definition is not part
\* of the sources: the INSERT of a row whose subject does not exist is taken, or
\* rejected (then the transaction is rolled back).  voteRows holds the rows of existing
\* subjects, strayVotes the others.
RequestVote(handler, caller, subject, missing, missingError, voteType) ==
    /\ RequestBegin
    /\ subject \in Subjects \/ missing
    /\ \E fail \in BOOLEAN, stored \in BOOLEAN :
        IF NotAuthenticated(caller)
        THEN /\ answer' = <<ErrorAnswer(handler, caller, subject,
                                        ApiError("Not authenticated", 401))>>
             /\ DbUnchanged
             /\ UNCHANGED strayVotes
        ELSE IF fail
        THEN /\ answer' = <<ErrorAnswer(handler, caller, subject, StorageError)>>
             /\ DbUnchanged
             /\ UNCHANGED strayVotes
        ELSE IF missing
        THEN /\ answer' = <<IF stored
                            THEN [ErrorAnswer(handler, caller, subject, missingError)
                                     EXCEPT !.failedAt = "afterCommit"]
                            ELSE [ErrorAnswer(handler, caller, subject, StorageError)
                                     EXCEPT !.failedAt = "INSERT_VOTE"]>>
             /\ strayVotes' = IF stored THEN strayVotes \cup {<<subject, caller, voteType>>}
                              ELSE strayVotes
             /\ DbUnchanged
        ELSE /\ SetDb(SerialVote(Committed, subject, caller, voteType))
             /\ answer' = <<Carrying(OkAnswer(handler, caller, subject, 200),
                                     IF subject \in PostIds THEN postRows[subject]
                                     ELSE commentRows[subject])>>
             /\ UNCHANGED strayVotes
    /\ UNCHANGED <<postRows, commentRows, commentNotes, tagRows>>

RequestVoteOnPost(caller, postId, voteType) ==
    RequestVote("voteOnPost", caller, postId, PostMissing(postId), GetPostByIdError, voteType)

RequestVoteOnComment(caller, commentId, voteType) ==
    RequestVote("voteOnComment", caller, commentId, CommentMissing(commentId),
                GetCommentByIdError, voteType)

\* Values req.body.isAnonymous can have: the route's rule {type: "boolean"} is not
\* checked by validateRequest, which tests the types "string" and "number" only.
\* "''" is the empty string, "'false'" the string false.
IsAnonymousValues == {"undefined", "true", "false", "0", "null", "''", "'false'"}

\* The value as a JavaScript condition (isAnonymous ? ... : ...).
IsTruthy(value) == value \notin {"undefined", "false", "0", "null", "''"}

\* The value as the storage takes it for the boolean column is_anonymous: <<b>> stored, or
\* <<>> when the INSERT is rejected.  NULL is stored or rejected (the column's definition
\* is not part of the sources); a stored NULL is not true.
StoredBoolean(value) ==
    CASE value \in {"true", "1"} -> {<<TRUE>>}
      [] value \in {"false", "0", "'false'"} -> {<<FALSE>>}
      [] value = "null" -> {<<FALSE>>, <<>>}
      [] OTHER -> {<<>>}

\* Values of req.body.tags: undefined (<<>>) or an array; "7" is the number 7, an
\* element that is not a string.
TagArrays == {<<>>, <<<<>>>>, <<<<"A">>>>, <<<<"A", "b">>>>, <<<<"A", "a">>>>, <<<<"b", "7">>>>}

\* tagName.toLowerCase is not a function: the call throws a TypeError.
NotAString(tagName) == tagName = "7"

\* Variant: the tag name is stored as the request gave it.
TagNameAsGiven(tagName) == tagName

\* tagName.toLowerCase()
TagName(tagName) == ToLowerCase(tagName)

\* The statements createPost sends on its client: BEGIN, INSERT INTO posts, for each tag
\* INSERT INTO tags ... ON CONFLICT (name) DO UPDATE and INSERT INTO post_tags, COMMIT.
PostStatements(tags) ==
    LET list == IF tags = <<>> THEN <<>> ELSE tags[1]
        n == 3 + 2 * Len(list)
    IN  [k \in 1 .. n |->
            IF k = 1 THEN [op |-> "BEGIN", tagName |-> "none"]
            ELSE IF k = 2 THEN [op |-> "INSERT_POST", tagName |-> "none"]
            ELSE IF k = n THEN [op |-> "COMMIT", tagName |-> "none"]
            ELSE [op |-> IF k % 2 = 1 THEN "INSERT_TAG" ELSE "INSERT_POST_TAG",
                  tagName |-> list[(k - 1) \div 2]]]

\* The tables createPost's transaction works on.
PostTables == [postRows |-> postRows, tagRows |-> tagRows]

\* The tables as the transaction sees them after one more statement.
AfterPostStatement(statement, w, c) ==
    CASE statement.op = "INSERT_POST" ->
             [w EXCEPT !.postRows[c.id] =
                 [NewPostRow(c.authorId, c.content) EXCEPT !.is_anonymous = c.stored]]
      [] statement.op = "INSERT_TAG" ->
             [w EXCEPT !.tagRows = @ \cup {TagName(statement.tagName)}]
      [] statement.op = "INSERT_POST_TAG" ->
             [w EXCEPT !.postRows[c.id].tags = @ \cup {TagName(statement.tagName)}]
      [] OTHER -> w

RECURSIVE AfterPostStatements(_, _, _, _)
AfterPostStatements(statements, k, w, c) ==
    IF k = 0 THEN w
    ELSE AfterPostStatement(statements[k], AfterPostStatements(statements, k - 1, w, c), c)

\* The INSERTs INTO post_tags of a pair (post_id, tag_id) the call has inserted before.
\* The table's definition is not part of the sources: such a row is taken or rejected.
RepeatedPairs(statements) ==
    {k \in DOMAIN statements :
        /\ statements[k].op = "INSERT_POST_TAG"
        /\ \E j \in 1 .. k - 1 :
              /\ statements[j].op = "INSERT_POST_TAG"
              /\ TagName(statements[j].tagName) = TagName(statements[k].tagName)}

\* The INSERTs INTO tags whose parameter tagName.toLowerCase() throws.
ThrowingNames(statements) ==
    {k \in DOMAIN statements :
        statements[k].op = "INSERT_TAG" /\ NotAString(statements[k].tagName)}

\* The least of a non-empty set of numbers.
Least(numbers) == CHOOSE k \in numbers : \A j \in numbers : k <= j

\* What the response of createPost shows of the post:
\* {...post, author_username: isAnonymous ? null : post.author_username}
CreatedPostShown(isAnonymous, row) ==
    [is_anonymous |-> row.is_anonymous,
     author_username |-> IF IsTruthy(isAnonymous) THEN "null"
                         ELSE UsernameOf(row.author_id)]

\* Controller createPost (POST /posts) with its model call: const {content,
\* isAnonymous = true, tags} = req.body; the model's transaction, statement n of which
\* may fail; getPostById after COMMIT.
RequestCreatePost(caller, content, isAnonymousGiven, tags) ==
    /\ RequestBegin
    /\ FreshId(PostIdSeq, postRows) # "none"
    /\ LET isAnonymous == OrDefault(isAnonymousGiven, "true")
           statements == PostStatements(tags)
       IN  \E failAt \in FailPoints, stored \in StoredBoolean(isAnonymous),
              pairTaken \in (IF RepeatedPairs(statements) = {} THEN {TRUE} ELSE BOOLEAN) :
           \E n \in (IF failAt = "within" THEN DOMAIN statements ELSE {1}) :
             LET c == [id |-> FreshId(PostIdSeq, postRows), authorId |-> caller,
                       content |-> content,
                       stored |-> IF stored = <<>> THEN FALSE ELSE stored[1]]
                 failing == (IF stored = <<>> THEN {2} ELSE {})
                            \cup (IF failAt = "within" THEN {n} ELSE {})
                            \cup (IF pairTaken THEN {} ELSE RepeatedPairs(statements))
                            \cup ThrowingNames(statements)
                 thrown == IF failing # {} /\ Least(failing) \in ThrowingNames(statements)
                              /\ ~(failAt = "within" /\ n = Least(failing))
                           THEN PlainError("TypeError") ELSE StorageError
                 body == [isAnonymous |-> isAnonymousGiven, tags |-> tags]
             IN  IF NotAuthenticated(caller)
                 THEN /\ answer' = <<[ErrorAnswer("createPost", caller, "none",
                                                  ApiError("Not authenticated", 401))
                                         EXCEPT !.body = <<body>>]>>
                      /\ UNCHANGED <<postRows, tagRows>>
                 ELSE IF failAt = "before"
                 THEN /\ answer' = <<[ErrorAnswer("createPost", caller, "none", StorageError)
                                         EXCEPT !.failedAt = "getClient",
                                                !.body = <<body>>]>>
                      /\ UNCHANGED <<postRows, tagRows>>
                 ELSE IF failing # {}
                 THEN LET w == RolledBack(PostTables,
                                   AfterPostStatements(statements, Least(failing) - 1,
                                                       PostTables, c))
                      IN  /\ answer' =
                                <<[ErrorAnswer("createPost", caller, "none", thrown)
                                      EXCEPT !.failedAt = statements[Least(failing)].op,
                                             !.body = <<body>>]>>
                          /\ postRows' = w.postRows
                          /\ tagRows' = w.tagRows
                 ELSE LET w == AfterPostStatements(statements, Len(statements),
                                                   PostTables, c)
                      IN  /\ postRows' = w.postRows
                          /\ tagRows' = w.tagRows
                          /\ answer' =
                                <<IF failAt = "after"
                                  THEN [ErrorAnswer("createPost", caller, c.id, StorageError)
                                           EXCEPT !.failedAt = "getPostById",
                                                  !.body = <<body>>]
                                  ELSE [OkAnswer("createPost", caller, c.id, 201)
                                           EXCEPT !.carried =
                                                      <<CreatedPostShown(isAnonymous,
                                                                         w.postRows[c.id])>>,
                                                  !.body = <<body>>]>>
    /\ DbUnchanged
    /\ UNCHANGED <<commentRows, commentNotes, strayVotes>>

NextRequests ==
    \/ \E u \in Callers, p \in PostIds : GetPost(u, p)
    \/ \E u \in Callers, c \in CommentIds : GetComment(u, c)
    \/ \E u \in Callers, p \in PostIds, page \in 1 .. 2, limit \in {2, 50} :
          GetPostComments(u, p, page, limit)
    \/ \E u \in Callers, p \in PostIds, x \in {"undefined", "hate"},
          l \in {"undefined", "critical"}, st \in {"undefined", "deleted", "active"},
          tags \in {<<>>, <<{"A"}>>} : RequestUpdatePost(u, p, x, l, st, tags)
    \/ \E u \in Callers, p \in PostIds : RequestDeletePost(u, p)
    \/ \E u \in Callers, c \in CommentIds, x \in Contents : RequestUpdateComment(u, c, x)
    \/ \E u \in Callers, c \in CommentIds : RequestDeleteComment(u, c)
    \/ \E u \in Callers, p \in PostIds, x \in Contents, parent \in CommentIds \cup {"null"},
          a \in BOOLEAN, e \in BOOLEAN : RequestCreateComment(u, p, x, parent, a, e)
    \/ \E u \in Callers, x \in Contents, a \in IsAnonymousValues, tags \in TagArrays :
          RequestCreatePost(u, x, a, tags)
    \/ \E u \in Callers, p \in PostIds, t \in VoteTypes : RequestVoteOnPost(u, p, t)
    \/ \E u \in Callers, c \in CommentIds, t \in VoteTypes : RequestVoteOnComment(u, c, t)

\* The tags table the requests start from: one tag that earlier posts introduced.
RequestTags == {"a"}

InitRequests ==
    /\ \E db \in ContentStart \cup {EmptyDb}, comments \in RequestComments :
          \E posts \in RequestPosts(comments) :
              InitTables(db, "requests", posts, comments, RequestTags)
    /\ InitList(<<>>)
    /\ InitNoFeed

\* One request on each state of the tables.
SpecRequests == InitRequests /\ [][NextRequests]_vars

(***************************************************************************)
(* Properties of the requests                                              *)
(***************************************************************************)

PostHandlers ==
    {"getPost", "updatePost", "deletePost", "voteOnPost", "getPostComments", "createComment"}
CommentHandlers == {"getComment", "voteOnComment"}

\* The answered request was about a post or comment of which there is no row, came
\* with the authentication its route asks for, and met no failure of the storage.
\* No handler writes for such a request: the row is missing before the request as well.
SubjectMissing(a) ==
    /\ \/ a.handler \in PostHandlers /\ a.subject \in PostIds /\ PostMissing(a.subject)
       \/ a.handler \in CommentHandlers /\ a.subject \in CommentIds
          /\ CommentMissing(a.subject)
    /\ a.status # 401
    /\ a.message # StorageError.message

\* C26: a request whose subject does not exist (getPost, updatePost, deletePost,
\* voteOnPost, getPostComments, createComment on a missing post; getComment,
\* voteOnComment on a missing comment) is answered with status 404.
C26_MissingSubjectNotFound ==
    answer # <<>> /\ SubjectMissing(answer[1]) => answer[1].status = 404

\* What the handlers do: getPostById / getCommentById throw an Error that is no ApiError,
\* and the error handler answers it with status 500.
MissingSubjectInternalError ==
    answer # <<>> /\ SubjectMissing(answer[1]) => answer[1].status = 500

\* Each of the eight handlers has answered a request on a missing subject.
MissingSubjectAnswered(handler) ==
    answer # <<>> /\ SubjectMissing(answer[1]) /\ answer[1].handler = handler

\* The answered request was an update or a delete of an existing post or comment, sent
\* by a signed-in user who is not its author, and met no failure of the storage.
ByNonAuthor(a) ==
    /\ a.caller \in Users
    /\ a.message # StorageError.message
    /\ \/ /\ a.handler \in {"updatePost", "deletePost"}
          /\ ~PostMissing(a.subject)
          /\ postRows[a.subject].author_id # a.caller
       \/ /\ a.handler \in {"updateComment", "deleteComment"}
          /\ ~CommentMissing(a.subject)
          /\ commentRows[a.subject].author_id # a.caller

\* C27: an update or a delete of a post or comment requested by a user who is not its
\* author is answered 403 and leaves every row of posts and comments (content, status,
\* tags, comment_count) as it was.
C27_NonAuthorForbidden ==
    [][answer = <<>> /\ answer' # <<>> /\ ByNonAuthor(answer'[1])
         => /\ answer'[1].status = 403
            /\ UNCHANGED <<postRows, commentRows, commentNotes>>]_vars

\* A user who is not the author has asked to delete an active comment of a post that
\* counts it, and was answered 403.
C27_Witness ==
    /\ answer # <<>>
    /\ answer[1].handler = "deleteComment"
    /\ ByNonAuthor(answer[1])
    /\ answer[1].status = 403
    /\ commentRows[answer[1].subject].status = "active"
    /\ postRows["p1"].comment_count > 0

\* The same for an update of a post.
NonAuthorUpdatePostRefused ==
    /\ answer # <<>>
    /\ answer[1].handler = "updatePost"
    /\ ByNonAuthor(answer[1])
    /\ answer[1].status = 403

\* The notification rows a step inserts: by createComment and by a vote.
NewCommentNotes == commentNotes' \ commentNotes
NewVoteNotes == {n \in NotificationRows : notifications'[n] > notifications[n]}

\* C28: no notification is created whose recipient is the user whose request created
\* it: createComment notifies neither the commenter as author of the post nor the
\* commenter as author of the parent comment, and a vote never notifies the voter.
C28_NoSelfNotification ==
    [][answer = <<>> /\ answer' # <<>>
         => /\ \A n \in NewCommentNotes : n.recipient_id # answer'[1].caller
            /\ \A n \in NewVoteNotes : n.recipient_id # answer'[1].caller]_vars

\* The author of post p1 has commented on it, in reply to their own comment c2, and the
\* comment is stored.
C28_Witness ==
    /\ answer # <<>>
    /\ answer[1].handler = "createComment"
    /\ answer[1].status = 201
    /\ answer[1].caller = postRows["p1"].author_id
    /\ commentRows[answer[1].subject].parent_comment_id # "null"
    /\ commentRows[commentRows[answer[1].subject].parent_comment_id].author_id
          = answer[1].caller

\* A comment of another user has notified the post's author.
PostAuthorNotified ==
    /\ answer # <<>>
    /\ answer[1].handler = "createComment"
    /\ \E n \in commentNotes :
          n.recipient_id = postRows["p1"].author_id /\ n.recipient_id # answer[1].caller

\* The author of post p1 has upvoted it for the first time.
AuthorUpvotedOwnPost ==
    /\ answer # <<>>
    /\ answer[1].handler = "voteOnPost"
    /\ answer[1].status = 200
    /\ answer[1].caller = AuthorOf("p1")
    /\ voteRows[<<"p1", answer[1].caller, "up">>] > 0

\* The statements of createComment's transaction.
TransactionStatements ==
    {"BEGIN", "INSERT_COMMENT", "UPDATE_COUNT", "UPDATE_EXPERT", "SELECT_POST_AUTHOR",
     "INSERT_POST_NOTIFICATION", "SELECT_PARENT_AUTHOR", "INSERT_PARENT_NOTIFICATION",
     "COMMIT"}

\* C29: if a statement inside createComment's transaction fails, nothing of the comment
\* creation persists (no comment row, no comment_count increment, no expert_responded
\* change, no notification) and the caller gets the error.
C29_FailedCommentLeavesNothing ==
    [][answer = <<>> /\ answer' # <<>> /\ answer'[1].handler = "createComment"
       /\ answer'[1].failedAt \in TransactionStatements
         => /\ UNCHANGED <<postRows, commentRows, commentNotes>>
            /\ answer'[1].status = 500]_vars

\* createComment of u3 in reply to another user's comment has failed at its last INSERT,
\* after the comment row, the count and the post author's notification were written.
C29_Witness ==
    /\ answer # <<>>
    /\ answer[1].handler = "createComment"
    /\ answer[1].failedAt = "INSERT_PARENT_NOTIFICATION"
    /\ answer[1].caller = "u3"
    /\ ~postRows["p1"].expert_responded
    /\ FreshId(CommentIdSeq, commentRows) # "none"

\* Every statement of the transaction has been the failing one.
FailedAt(statement) ==
    answer # <<>> /\ answer[1].handler = "createComment" /\ answer[1].failedAt = statement

\* A comment whose transaction committed is stored with its count, also when the read
\* after COMMIT fails.
CommittedCommentStored ==
    answer # <<>> /\ answer[1].handler = "createComment"
    /\ answer[1].failedAt = "getCommentById"
        => \E c \in CommentIds : commentRows[c].author_id = answer[1].caller

\* The page getCommentsForPost returned to an answered getPostComments.
ListAnswered ==
    /\ answer # <<>>
    /\ answer[1].handler = "getPostComments"
    /\ answer[1].status = 200

IsTopLevel(commentId) == commentRows[commentId].parent_comment_id = "null"

\* C30: in the flat list of getCommentsForPost all top-level comments (parent_comment_id
\* null) precede all replies, and apart from that the comments are in ascending order
\* of creation.
C30_TopLevelFirstThenByCreation ==
    ListAnswered =>
        LET list == answer[1].flat
        IN  \A i, j \in DOMAIN list :
              i < j =>
                /\ IsTopLevel(list[j]) => IsTopLevel(list[i])
                /\ IsTopLevel(list[i]) = IsTopLevel(list[j])
                      => CreatedAt(list[i]) < CreatedAt(list[j])

\* What the query's ORDER BY gives: top-level comments first in order of creation, and
\* the replies to one comment in order of creation.
FlatListOrderedPerParent ==
    ListAnswered =>
        LET list == answer[1].flat
        IN  \A i, j \in DOMAIN list :
              i < j =>
                /\ IsTopLevel(list[j]) => IsTopLevel(list[i])
                /\ commentRows[list[i]].parent_comment_id
                      = commentRows[list[j]].parent_comment_id
                      => CreatedAt(list[i]) < CreatedAt(list[j])

\* A list with two top-level comments, and a list with a reply, have been returned.
TwoTopLevelListed ==
    ListAnswered /\ Len(answer[1].flat) = 2
    /\ \A i \in DOMAIN answer[1].flat : IsTopLevel(answer[1].flat[i])
RepliesListed ==
    ListAnswered /\ Len(answer[1].flat) = 3

(***************************************************************************)
(* The pool's clients: getClient (src/src/models/notification.model.ts)    *)
(* and the functions that run a transaction on a client of their own:      *)
(* voteOnPost, createPost, updatePost (src/src/models/post.model.ts),      *)
(* voteOnComment, createComment, deleteComment (comment model).  All six   *)
(* have the same frame:                                                    *)
(*   const { client, release } = await getClient();                        *)
(*   try { BEGIN; ...; COMMIT; release(); ... }                            *)
(*   catch (error) { await client.query("ROLLBACK"); release(); throw }    *)
(***************************************************************************)

ClientFunctions ==
    {"voteOnPost", "voteOnComment", "createPost", "updatePost", "createComment",
     "deleteComment"}

\* The statements a call sends on its client inside try, up to COMMIT.
TryStatements(fn) ==
    CASE fn \in {"voteOnPost", "voteOnComment"} ->
             <<"BEGIN", "SELECT_VOTE", "WRITE_VOTE", "UPDATE_COUNTS", "SELECT_AUTHOR",
               "INSERT_NOTIFICATION", "COMMIT">>
      [] fn = "createPost" ->
             <<"BEGIN", "INSERT_POST", "INSERT_TAG", "INSERT_POST_TAG", "COMMIT">>
      [] fn = "updatePost" ->
             <<"BEGIN", "UPDATE_POST", "DELETE_POST_TAGS", "INSERT_TAG",
               "INSERT_POST_TAG", "COMMIT">>
      [] fn = "createComment" ->
             <<"BEGIN", "INSERT_COMMENT", "UPDATE_COUNT", "UPDATE_EXPERT",
               "SELECT_POST_AUTHOR", "INSERT_POST_NOTIFICATION", "SELECT_PARENT_AUTHOR",
               "INSERT_PARENT_NOTIFICATION", "COMMIT">>
      [] OTHER -> <<"BEGIN", "UPDATE_COMMENT", "UPDATE_COUNT", "COMMIT">>

\* A call in flight: where it is, and how often it has called release().
ClientCall(fn) ==
    [fn |-> fn, pc |-> "try", at |-> 1, acquired |-> 1, released |-> 0,
     failed |-> "none", rollbackFailed |-> FALSE]

\* What is kept of a call that has ended.
EndedCall(call) ==
    [fn |-> call.fn, acquired |-> call.acquired, released |-> call.released,
     failed |-> IF call.failed \in {"none", "COMMIT"} THEN call.failed ELSE "statement",
     rollbackFailed |-> call.rollbackFailed]

ClientStep ==
    /\ mode = "clients"
    /\ UNCHANGED <<voteRows, upvotes, downvotes, notifications, req, hist, contentVars,
                   threadVars, feedVars, answer, tagRows, strayVotes, mode>>

CallEnds(call) == clients' = [log |-> Append(clients.log, EndedCall(call)), call |-> <<>>]

\* const { client, release } = await getClient(): pool.connect() gives a client, or
\* rejects and the call ends before its try block.
GetClient(fn) ==
    /\ ClientStep
    /\ clients.call = <<>>
    /\ Len(clients.log) < MaxCalls
    /\ \E ok \in BOOLEAN :
        IF ok THEN clients' = [clients EXCEPT !.call = <<ClientCall(fn)>>]
        ELSE CallEnds([ClientCall(fn) EXCEPT !.acquired = 0, !.failed = "getClient"])

\* await client.query(...) inside try: the next statement; when it rejects, control
\* goes to the catch block.
Query ==
    /\ ClientStep
    /\ clients.call # <<>>
    /\ clients.call[1].pc = "try"
    /\ LET call == clients.call[1]
           statements == TryStatements(call.fn)
       IN  \E ok \in BOOLEAN :
             clients' = [clients EXCEPT !.call =
                 <<IF ~ok THEN [call EXCEPT !.pc = "catch", !.failed = statements[call.at]]
                   ELSE IF call.at = Len(statements) THEN [call EXCEPT !.pc = "release"]
                   ELSE [call EXCEPT !.at = @ + 1]>>]

\* release() after COMMIT.  What follows (return getPostById(...), not awaited inside
\* try) cannot reach the catch block.
ReleaseAfterCommit ==
    /\ ClientStep
    /\ clients.call # <<>>
    /\ clients.call[1].pc = "release"
    /\ CallEnds([clients.call[1] EXCEPT !.released = @ + 1])

\* catch: await client.query("ROLLBACK").  When it rejects, the catch block ends there:
\* the call throws before release().
RollbackInCatch ==
    /\ ClientStep
    /\ clients.call # <<>>
    /\ clients.call[1].pc = "catch"
    /\ \E ok \in BOOLEAN :
        IF ok THEN clients' = [clients EXCEPT !.call = <<[@[1] EXCEPT !.pc = "catchRelease"]>>]
        ELSE CallEnds([clients.call[1] EXCEPT !.rollbackFailed = TRUE])

\* catch: release(); throw error
ReleaseInCatch ==
    /\ ClientStep
    /\ clients.call # <<>>
    /\ clients.call[1].pc = "catchRelease"
    /\ CallEnds([clients.call[1] EXCEPT !.released = @ + 1])

NextClients ==
    \/ \E fn \in ClientFunctions : GetClient(fn)
    \/ Query
    \/ ReleaseAfterCommit
    \/ RollbackInCatch
    \/ ReleaseInCatch

InitClients == InitAll(EmptyDb, "clients", <<>>)

\* Up to MaxCalls calls, one after the other, each statement of which may fail.
SpecClients == InitClients /\ [][NextClients]_vars

\* C32: every client taken with getClient by voteOnPost, voteOnComment, createPost,
\* updatePost, createComment or deleteComment is released exactly once on every path,
\* also when a statement, the COMMIT or the ROLLBACK fails.
C32_ReleasedExactlyOnce ==
    \A k \in DOMAIN clients.log :
        clients.log[k].acquired = 1 => clients.log[k].released = 1

\* What does hold: no client is released twice, and a client is released once unless
\* the ROLLBACK of the catch block failed; then it is never released.
ReleasedOnceUnlessRollbackFails ==
    /\ \A k \in DOMAIN clients.log :
          LET call == clients.log[k]
          IN  /\ call.released <= call.acquired
              /\ call.acquired = 1 =>
                    call.released = (IF call.rollbackFailed THEN 0 ELSE 1)
    /\ clients.call # <<>> => clients.call[1].released = 0

\* Calls whose COMMIT failed, and calls that committed, have ended with one release.
CommitFailedReleased ==
    \E k \in DOMAIN clients.log :
        /\ clients.log[k].failed = "COMMIT"
        /\ ~clients.log[k].rollbackFailed
        /\ clients.log[k].released = 1

\* The answered request was a vote of a signed-in user on the id of no post / comment.
VoteOnMissingSubject(a) ==
    /\ a.handler \in {"voteOnPost", "voteOnComment"}
    /\ a.caller \in Users
    /\ \/ a.handler = "voteOnPost" /\ PostMissing(a.subject)
       \/ a.handler = "voteOnComment" /\ CommentMissing(a.subject)

\* C33: a vote request on a subject id for which no post / comment row exists ends in
\* an error and commits nothing: afterwards there is no vote row for that id and no
\* notification was created.
C33_VoteOnMissingCommitsNothing ==
    [][answer = <<>> /\ answer' # <<>> /\ VoteOnMissingSubject(answer'[1])
         => /\ answer'[1].status >= 400
            /\ \A v \in strayVotes' : v[1] # answer'[1].subject
            /\ UNCHANGED <<voteRows, upvotes, downvotes, notifications, commentNotes>>]_vars

\* What does hold: the request ends in an error, creates no notification and changes no
\* counter; a vote row is left whenever the storage takes the INSERT.
VoteOnMissingFailsUnnotified ==
    [][answer = <<>> /\ answer' # <<>> /\ VoteOnMissingSubject(answer'[1])
         => /\ answer'[1].status = 500
            /\ UNCHANGED <<voteRows, upvotes, downvotes, notifications, commentNotes>>
            /\ strayVotes' # strayVotes => answer'[1].failedAt = "afterCommit"]_vars

\* A vote on a missing post was rejected by the storage and left no row.
VoteOnMissingRejected ==
    /\ answer # <<>>
    /\ VoteOnMissingSubject(answer[1])
    /\ answer[1].failedAt = "INSERT_VOTE"
    /\ strayVotes = {}

\* C34: one createComment call creates at most one notification per recipient: a user
\* who is the post's author and the parent comment's author, and not the commenter, gets
\* a single notification for the new reply.
C34_OneNotificationPerRecipient ==
    [][answer = <<>> /\ answer' # <<>> /\ answer'[1].handler = "createComment"
         => \A n, m \in NewCommentNotes : n.recipient_id = m.recipient_id => n = m]_vars

\* What does hold: a call creates at most one notification about the post and at most
\* one about the parent comment, each to another user than the commenter.
OneNotificationPerRole ==
    [][answer = <<>> /\ answer' # <<>> /\ answer'[1].handler = "createComment"
         => \A n, m \in NewCommentNotes : n.about = m.about => n = m]_vars

\* A reply to a comment of another user than the post's author has notified both.
TwoRecipientsNotified ==
    /\ answer # <<>>
    /\ answer[1].handler = "createComment"
    /\ \E n, m \in commentNotes : n.recipient_id # m.recipient_id

\* The posts that are moderated or deleted.
Withdrawn == {p \in PostIds : postRows[p].status \in {"moderated", "deleted"}}

\* C35: once a post's status is 'moderated' or 'deleted', no request made by its author
\* returns it to 'active'.
C35_AuthorCannotReactivate ==
    [][answer = <<>> /\ answer' # <<>>
         => \A p \in Withdrawn :
               answer'[1].caller = postRows[p].author_id => postRows'[p].status # "active"]_vars

\* What does hold: only updatePost returns a moderated or deleted post to 'active', and
\* only for its author.
OnlyUpdatePostReactivates ==
    [][answer = <<>> /\ answer' # <<>>
         => \A p \in Withdrawn :
               postRows'[p].status = "active"
                  => /\ answer'[1].handler = "updatePost"
                     /\ answer'[1].caller = postRows[p].author_id
                     /\ answer'[1].subject = p]_vars

\* The author's update of their deleted post without a status has left it deleted.
AuthorUpdateKeepsDeleted ==
    /\ answer # <<>>
    /\ answer[1].handler = "updatePost"
    /\ answer[1].status = 200
    /\ postRows[answer[1].subject].status = "deleted"
    /\ postRows[answer[1].subject].content = "hate"

\* The comments of a listing response, every node of its forest.
ListedNodes(response) ==
    IF response.handler = "getPostComments" /\ response.status = 200
    THEN NodesOf(response.comments) ELSE {}

FeedHidesAnonymous ==
    /\ feedResponse # <<>>
    /\ \E k \in DOMAIN feedResponse[1].posts : feedResponse[1].posts[k].is_anonymous = TRUE

ListingHidesAnonymousOnly ==
    /\ answer # <<>>
    /\ \E node \in ListedNodes(answer[1]) : node.is_anonymous = TRUE
    /\ \E node \in ListedNodes(answer[1]) : node.author_username \notin {"null", "undefined"}

\* A post created with the string 'false' is stored not anonymous and answered without
\* the author's name.
StringFalseHidesUsername ==
    /\ answer # <<>>
    /\ answer[1].handler = "createPost"
    /\ answer[1].status = 201
    /\ answer[1].body[1].isAnonymous = "'false'"
    /\ answer[1].carried[1].is_anonymous = FALSE
    /\ answer[1].carried[1].author_username = "null"

\* The statements of createPost's transaction.
PostStatementOps == {"BEGIN", "INSERT_POST", "INSERT_TAG", "INSERT_POST_TAG", "COMMIT"}

\* The tag names a createPost request asked for.
AskedTags(response) ==
    IF response.body[1].tags = <<>> THEN {}
    ELSE {response.body[1].tags[1][k] : k \in DOMAIN response.body[1].tags[1]}

\* C38: createPost is all-or-nothing: when inserting the post, a tag or a post-tag
\* association fails, no post row, no new tag row and no post_tags row persists; when the
\* post is created, its tag set is the lowercased requested tags.
C38_CreatePostAllOrNothing ==
    [][(answer' # <<>> /\ answer'[1].handler = "createPost") =>
          /\ answer'[1].failedAt \in PostStatementOps =>
                 /\ answer'[1].status = 500
                 /\ UNCHANGED <<postRows, tagRows>>
          /\ answer'[1].status = 201 =>
                 /\ postRows[answer'[1].subject].status = "none"
                 /\ postRows'[answer'[1].subject].status = "active"
                 /\ postRows'[answer'[1].subject].tags =
                        {ToLowerCase(t) : t \in AskedTags(answer'[1])}
                 /\ postRows'[answer'[1].subject].tags \subseteq tagRows'
                 /\ \A p \in PostIds \ {answer'[1].subject} : postRows'[p] = postRows[p]]_vars

\* A createPost with tags ["b", 7] fails on the second tag's name, after the post, the
\* tag b and its association were inserted: no post was added and b is no tag.
C38_Witness ==
    /\ answer # <<>>
    /\ answer[1].handler = "createPost"
    /\ answer[1].message = "TypeError"
    /\ answer[1].failedAt = "INSERT_TAG"
    /\ answer[1].status = 500
    /\ "b" \notin tagRows
    /\ \A p \in PostIds : "b" \notin postRows[p].tags

\* A post created with tags ["A", "b"] has the tags a and b, b a new tag row.
CreatedWithLowercasedTags ==
    /\ answer # <<>>
    /\ answer[1].handler = "createPost"
    /\ answer[1].status = 201
    /\ AskedTags(answer[1]) = {"A", "b"}
    /\ postRows[answer[1].subject].tags = {"a", "b"}
    /\ tagRows = {"a", "b"}

====
